---- MODULE Spec2Model ----
(***************************************************************************)
(* Schema graph (Schema / Table / Column / Relationship) and the schema    *)
(* validation engine of tainiex-designer.                                  *)
(*                                                                         *)
(* Strings are TLA+ strings; the string conversions of the code            *)
(* (toLowerCase, toUpperCase, trim, split('(')[0]) are computed character  *)
(* by character.  A Map<string, X> is a sequence of records with pairwise  *)
(* distinct ids, in insertion order.                                       *)
(***************************************************************************)
EXTENDS Integers, Sequences, FiniteSets, TLC

VARIABLES tables, relationships, nextTableId, nextRelId, call, ret,
          search, tool, wizard

vars == <<tables, relationships, nextTableId, nextRelId, call, ret, search, tool, wizard>>

(***************************************************************************)
(* The objects beside the schema, as they are before they are used:        *)
(* search holds the locals of one run of checkCircularDependencies when it *)
(* is followed call by call, tool the fields of RelationshipTool, wizard   *)
(* the fields of RelationshipWizard and the calls made to its callbacks    *)
(***************************************************************************)
SearchIdle ==
    [pc |-> "idle", tableIndex |-> 1, frames |-> <<>>,
     visited |-> {}, recursionStack |-> {}, warnings |-> <<>>]

ToolIdle == [isLinking |-> FALSE, sourceTable |-> "null"]

WizardNew ==
    [overlay |-> FALSE, currentStep |-> 1,
     selectedSourceColumn |-> "null", selectedTargetColumn |-> "null",
     selectedType |-> "one-to-many", shows |-> 0,
     onComplete |-> <<>>, onCancel |-> 0]

Others == search = SearchIdle /\ tool = ToolIdle /\ wizard = WizardNew

(***************************************************************************)
(* Bounds                                                                  *)
(***************************************************************************)
MaxTables == 2
MaxRels == 1

(***************************************************************************)
(* String primitives                                                       *)
(***************************************************************************)
LowerAlpha == "abcdefghijklmnopqrstuvwxyz"
UpperAlpha == "ABCDEFGHIJKLMNOPQRSTUVWXYZ"

CharAt(s, i) == SubSeq(s, i, i)

\* the case mappings of the letters, as functions of the character
LowerOf == [c \in {CharAt(UpperAlpha, i) : i \in 1..26} |->
               CharAt(LowerAlpha, CHOOSE i \in 1..26 : CharAt(UpperAlpha, i) = c)]

UpperOf == [c \in {CharAt(LowerAlpha, i) : i \in 1..26} |->
               CharAt(UpperAlpha, CHOOSE i \in 1..26 : CharAt(LowerAlpha, i) = c)]

toLowerCaseChar(c) == IF c \in DOMAIN LowerOf THEN LowerOf[c] ELSE c

toUpperCaseChar(c) == IF c \in DOMAIN UpperOf THEN UpperOf[c] ELSE c

RECURSIVE toLowerCase(_)
toLowerCase(s) ==
    IF s = "" THEN "" ELSE toLowerCaseChar(Head(s)) \o toLowerCase(Tail(s))

RECURSIVE toUpperCase(_)
toUpperCase(s) ==
    IF s = "" THEN "" ELSE toUpperCaseChar(Head(s)) \o toUpperCase(Tail(s))

IsWhitespace(c) == c \in {" ", "\t", "\n"}

RECURSIVE trimStart(_)
trimStart(s) ==
    IF s = "" THEN ""
    ELSE IF IsWhitespace(Head(s)) THEN trimStart(Tail(s)) ELSE s

RECURSIVE trimEnd(_)
trimEnd(s) ==
    IF s = "" THEN ""
    ELSE IF IsWhitespace(CharAt(s, Len(s))) THEN trimEnd(SubSeq(s, 1, Len(s) - 1)) ELSE s

trim(s) == trimEnd(trimStart(s))

\* type.split('(')[0]
RECURSIVE splitParenFirst(_)
splitParenFirst(s) ==
    IF s = "" THEN ""
    ELSE IF Head(s) = "(" THEN "" ELSE Head(s) \o splitParenFirst(Tail(s))

\* !s || s.trim() === ''
IsBlank(s) == s = "" \/ trim(s) = ""

(***************************************************************************)
(* Map<string, X> as an insertion-ordered sequence of records with an id   *)
(***************************************************************************)
MapHas(m, id) == \E i \in 1..Len(m) : m[i].id = id

MapIndex(m, id) == CHOOSE i \in 1..Len(m) : m[i].id = id

MapGet(m, id) == m[MapIndex(m, id)]

MapSet(m, v) ==
    IF MapHas(m, v.id) THEN [m EXCEPT ![MapIndex(m, v.id)] = v] ELSE Append(m, v)

MapDelete(m, id) == SelectSeq(m, LAMBDA v : v.id # id)

MapKeys(m) == {m[i].id : i \in 1..Len(m)}

(***************************************************************************)
(* Identifiers (generateId yields a fresh id on every call)                *)
(***************************************************************************)
TableId(n) == "t" \o ToString(n)
RelId(n) == "r" \o ToString(n)

AllTableIds == {TableId(n) : n \in 1..MaxTables}
AllRelIds == {RelId(n) : n \in 1..MaxRels}

(***************************************************************************)
(* Column, Table, Relationship                                             *)
(***************************************************************************)
Column(id, name, type) ==
    [id |-> id, name |-> name, type |-> type, nullable |-> TRUE,
     primaryKey |-> FALSE, foreignKey |-> FALSE, unique |-> FALSE,
     autoIncrement |-> FALSE]

Table(id, name) == [id |-> id, name |-> name, columns |-> <<>>]

Relationship(id, type, sourceTableId, targetTableId, sourceColumnId, targetColumnId) ==
    [id |-> id, type |-> type,
     sourceTableId |-> sourceTableId, targetTableId |-> targetTableId,
     sourceColumnId |-> sourceColumnId, targetColumnId |-> targetColumnId]

Schema(ts, rs) == [tables |-> ts, relationships |-> rs]

schema == Schema(tables, relationships)

\* Table.addColumn
Table_addColumn(t, c) == [t EXCEPT !.columns = Append(@, c)]

\* Table.removeColumn
\* faulty variant: the columns behind the removed one go with it
Table_removeColumn_truncates(t, columnId) ==
    [t EXCEPT !.columns =
        SubSeq(@, 1, IF \E i \in 1..Len(@) : @[i].id = columnId
                     THEN (CHOOSE i \in 1..Len(@) :
                              @[i].id = columnId /\ \A j \in 1..(i - 1) : @[j].id # columnId) - 1
                     ELSE Len(@))]

Table_removeColumn(t, columnId) ==
    [t EXCEPT !.columns = SelectSeq(@, LAMBDA c : c.id # columnId)]

\* Table.getColumn: the first column with that id, or undefined
HasColumn(t, columnId) == \E i \in 1..Len(t.columns) : t.columns[i].id = columnId

getColumn(t, columnId) ==
    t.columns[CHOOSE i \in 1..Len(t.columns) :
                 /\ t.columns[i].id = columnId
                 /\ \A j \in 1..(i - 1) : t.columns[j].id # columnId]

\* Table.getPrimaryKeys
getPrimaryKeys(t) == SelectSeq(t.columns, LAMBDA c : c.primaryKey)

\* Schema.getTable
HasTable(s, id) == MapHas(s.tables, id)
getTable(s, id) == MapGet(s.tables, id)

\* Schema.getRelationship
HasRelationship(s, id) == MapHas(s.relationships, id)
getRelationship(s, id) == MapGet(s.relationships, id)

\* Schema.addTable
Schema_addTable(s, t) == [s EXCEPT !.tables = MapSet(@, t)]

\* Schema.addRelationship
Schema_addRelationship(s, r) == [s EXCEPT !.relationships = MapSet(@, r)]

\* Schema.removeRelationship
Schema_removeRelationship(s, id) == [s EXCEPT !.relationships = MapDelete(@, id)]

\* faulty variant: only the relationships that start at the table are deleted
Schema_removeTable_sourceOnly(s, id) ==
    [tables |-> MapDelete(s.tables, id),
     relationships |-> SelectSeq(s.relationships, LAMBDA r : r.sourceTableId # id)]

\* Schema.removeTable: delete the table, then every relationship touching it
Schema_removeTable(s, id) ==
    [tables |-> MapDelete(s.tables, id),
     relationships |->
        SelectSeq(s.relationships,
                  LAMBDA r : ~(r.sourceTableId = id \/ r.targetTableId = id))]

(***************************************************************************)
(* ValidationResult, ValidationError, ValidationWarning                    *)
(***************************************************************************)
Finding(code, message, field, suggestion) ==
    [code |-> code, message |-> message, field |-> field, suggestion |-> suggestion]

Result(valid, errors, warnings) ==
    [valid |-> valid, errors |-> errors, warnings |-> warnings]

(***************************************************************************)
(* Relationship.areTypesCompatible                                         *)
(***************************************************************************)
normalize(type) == toUpperCase(trim(splitParenFirst(type)))

numericTypes ==
    {"INT", "INTEGER", "BIGINT", "SMALLINT", "TINYINT",
     "DECIMAL", "NUMERIC", "FLOAT", "DOUBLE", "NUMBER"}

\* faulty variant: CHAR is missing from the string group
stringTypes_noChar == {"VARCHAR", "TEXT", "STRING", "CLOB"}

stringTypes == {"VARCHAR", "CHAR", "TEXT", "STRING", "CLOB"}

dateTypes == {"DATE", "DATETIME", "TIMESTAMP", "TIME"}

\* faulty variant: the numeric test looks at the first type twice
areTypesCompatible_firstTwice(type1, type2) ==
    LET t1 == normalize(type1)
        t2 == normalize(type2)
    IN  IF t1 = t2 THEN TRUE
        ELSE IF t1 \in numericTypes /\ t1 \in numericTypes THEN TRUE
        ELSE IF t1 \in stringTypes /\ t2 \in stringTypes THEN TRUE
        ELSE IF t1 \in dateTypes /\ t2 \in dateTypes THEN TRUE
        ELSE FALSE

areTypesCompatible(type1, type2) ==
    LET t1 == normalize(type1)
        t2 == normalize(type2)
    IN  IF t1 = t2 THEN TRUE
        ELSE IF t1 \in numericTypes /\ t2 \in numericTypes THEN TRUE
        ELSE IF t1 \in stringTypes /\ t2 \in stringTypes THEN TRUE
        ELSE IF t1 \in dateTypes /\ t2 \in dateTypes THEN TRUE
        ELSE FALSE

(***************************************************************************)
(* Relationship.validate(schema)                                           *)
(***************************************************************************)
\* faulty variant: the target table is looked up only when the source table exists
tableErrors_elseIf(r, s) ==
    IF ~HasTable(s, r.sourceTableId)
    THEN <<Finding("SOURCE_TABLE_NOT_FOUND",
                   "Source table with ID '" \o r.sourceTableId \o "' not found",
                   "sourceTableId",
                   "Remove this relationship or restore the source table")>>
    ELSE IF ~HasTable(s, r.targetTableId)
    THEN <<Finding("TARGET_TABLE_NOT_FOUND",
                   "Target table with ID '" \o r.targetTableId \o "' not found",
                   "targetTableId",
                   "Remove this relationship or restore the target table")>>
    ELSE <<>>

\* step 1: both tables are looked up, each missing one is an error
tableErrors(r, s) ==
    (IF ~HasTable(s, r.sourceTableId)
     THEN <<Finding("SOURCE_TABLE_NOT_FOUND",
                    "Source table with ID '" \o r.sourceTableId \o "' not found",
                    "sourceTableId",
                    "Remove this relationship or restore the source table")>>
     ELSE <<>>)
    \o
    (IF ~HasTable(s, r.targetTableId)
     THEN <<Finding("TARGET_TABLE_NOT_FOUND",
                    "Target table with ID '" \o r.targetTableId \o "' not found",
                    "targetTableId",
                    "Remove this relationship or restore the target table")>>
     ELSE <<>>)

\* if (!sourceTable || !targetTable) return
tablesMissing(r, s) == ~HasTable(s, r.sourceTableId) \/ ~HasTable(s, r.targetTableId)

\* faulty variant: the target column is looked up in the source table
columnErrors_wrongTable(r, sourceTable, targetTable) ==
    (IF ~HasColumn(sourceTable, r.sourceColumnId)
     THEN <<Finding("SOURCE_COLUMN_NOT_FOUND",
                    "Source column with ID '" \o r.sourceColumnId
                        \o "' not found in table '" \o sourceTable.name \o "'",
                    "sourceColumnId",
                    "Select a valid column from the source table")>>
     ELSE <<>>)
    \o
    (IF ~HasColumn(sourceTable, r.targetColumnId)
     THEN <<Finding("TARGET_COLUMN_NOT_FOUND",
                    "Target column with ID '" \o r.targetColumnId
                        \o "' not found in table '" \o targetTable.name \o "'",
                    "targetColumnId",
                    "Select a valid column from the target table")>>
     ELSE <<>>)

\* step 2: both columns are looked up in the resolved tables
columnErrors(r, sourceTable, targetTable) ==
    (IF ~HasColumn(sourceTable, r.sourceColumnId)
     THEN <<Finding("SOURCE_COLUMN_NOT_FOUND",
                    "Source column with ID '" \o r.sourceColumnId
                        \o "' not found in table '" \o sourceTable.name \o "'",
                    "sourceColumnId",
                    "Select a valid column from the source table")>>
     ELSE <<>>)
    \o
    (IF ~HasColumn(targetTable, r.targetColumnId)
     THEN <<Finding("TARGET_COLUMN_NOT_FOUND",
                    "Target column with ID '" \o r.targetColumnId
                        \o "' not found in table '" \o targetTable.name \o "'",
                    "targetColumnId",
                    "Select a valid column from the target table")>>
     ELSE <<>>)

\* if (!sourceColumn || !targetColumn) return
columnsMissing(r, sourceTable, targetTable) ==
    ~HasColumn(sourceTable, r.sourceColumnId) \/ ~HasColumn(targetTable, r.targetColumnId)

\* step 3
typeErrors(sourceColumn, targetColumn) ==
    IF ~areTypesCompatible(sourceColumn.type, targetColumn.type)
    THEN <<Finding("TYPE_MISMATCH",
                   "Column types are incompatible: '" \o sourceColumn.type
                       \o "' and '" \o targetColumn.type \o "'",
                   "sourceColumnId",
                   "Ensure both columns have compatible data types")>>
    ELSE <<>>

\* faulty variant: a unique column counts as not indexed
relationshipWarnings_ignoresUnique(r, sourceColumn, targetColumn, targetTable) ==
    (IF ~targetColumn.primaryKey
     THEN <<Finding("TARGET_NOT_PRIMARY_KEY",
                    "Target column '" \o targetColumn.name
                        \o "' is not a primary key or unique",
                    "targetColumnId",
                    "Consider making the target column a primary key or unique")>>
     ELSE <<>>)
    \o
    (IF ~sourceColumn.primaryKey
     THEN <<Finding("SOURCE_NO_INDEX",
                    "Source column '" \o sourceColumn.name
                        \o "' should have an index for better performance",
                    "sourceColumnId",
                    "Add an index on the source column")>>
     ELSE <<>>)
    \o
    (IF (r.type = "one-to-many" \/ r.type = "many-to-many")
        /\ toLowerCase(sourceColumn.name) # toLowerCase(targetTable.name) \o "_id"
     THEN <<Finding("NAMING_CONVENTION",
                    "Foreign key column '" \o sourceColumn.name
                        \o "' doesn't follow naming convention",
                    "sourceColumnId",
                    "Consider renaming to '" \o toLowerCase(targetTable.name)
                        \o "_id" \o "'")>>
     ELSE <<>>)

\* faulty variant: the name of the source column is compared as written
relationshipWarnings_nameAsWritten(r, sourceColumn, targetColumn, targetTable) ==
    (IF ~targetColumn.primaryKey /\ ~targetColumn.unique
     THEN <<Finding("TARGET_NOT_PRIMARY_KEY",
                    "Target column '" \o targetColumn.name
                        \o "' is not a primary key or unique",
                    "targetColumnId",
                    "Consider making the target column a primary key or unique")>>
     ELSE <<>>)
    \o
    (IF ~sourceColumn.primaryKey /\ ~sourceColumn.unique
     THEN <<Finding("SOURCE_NO_INDEX",
                    "Source column '" \o sourceColumn.name
                        \o "' should have an index for better performance",
                    "sourceColumnId",
                    "Add an index on the source column")>>
     ELSE <<>>)
    \o
    (IF (r.type = "one-to-many" \/ r.type = "many-to-many")
        /\ sourceColumn.name # toLowerCase(targetTable.name) \o "_id"
     THEN <<Finding("NAMING_CONVENTION",
                    "Foreign key column '" \o sourceColumn.name
                        \o "' doesn't follow naming convention",
                    "sourceColumnId",
                    "Consider renaming to '" \o toLowerCase(targetTable.name)
                        \o "_id" \o "'")>>
     ELSE <<>>)

\* steps 4 to 6
relationshipWarnings(r, sourceColumn, targetColumn, targetTable) ==
    (IF ~targetColumn.primaryKey /\ ~targetColumn.unique
     THEN <<Finding("TARGET_NOT_PRIMARY_KEY",
                    "Target column '" \o targetColumn.name
                        \o "' is not a primary key or unique",
                    "targetColumnId",
                    "Consider making the target column a primary key or unique")>>
     ELSE <<>>)
    \o
    (IF ~sourceColumn.primaryKey /\ ~sourceColumn.unique
     THEN <<Finding("SOURCE_NO_INDEX",
                    "Source column '" \o sourceColumn.name
                        \o "' should have an index for better performance",
                    "sourceColumnId",
                    "Add an index on the source column")>>
     ELSE <<>>)
    \o
    (IF (r.type = "one-to-many" \/ r.type = "many-to-many")
        /\ toLowerCase(sourceColumn.name) # toLowerCase(targetTable.name) \o "_id"
     THEN <<Finding("NAMING_CONVENTION",
                    "Foreign key column '" \o sourceColumn.name
                        \o "' doesn't follow naming convention",
                    "sourceColumnId",
                    "Consider renaming to '" \o toLowerCase(targetTable.name)
                        \o "_id" \o "'")>>
     ELSE <<>>)

Relationship_validate(r, s) ==
    IF tablesMissing(r, s)
    THEN Result(FALSE, tableErrors(r, s), <<>>)
    ELSE LET sourceTable == getTable(s, r.sourceTableId)
             targetTable == getTable(s, r.targetTableId)
         IN  IF columnsMissing(r, sourceTable, targetTable)
             THEN Result(FALSE,
                         tableErrors(r, s) \o columnErrors(r, sourceTable, targetTable),
                         <<>>)
             ELSE LET sourceColumn == getColumn(sourceTable, r.sourceColumnId)
                      targetColumn == getColumn(targetTable, r.targetColumnId)
                      errors == tableErrors(r, s)
                                \o columnErrors(r, sourceTable, targetTable)
                                \o typeErrors(sourceColumn, targetColumn)
                  IN  Result(errors = <<>>,
                             errors,
                             relationshipWarnings(r, sourceColumn, targetColumn,
                                                  targetTable))

(***************************************************************************)
(* ValidationEngine                                                        *)
(***************************************************************************)
\* faulty variant: the numeric names are looked up in the type as written
isNumericType_asWritten(type) ==
    type \in {"INT", "INTEGER", "BIGINT", "SMALLINT", "TINYINT",
              "DECIMAL", "NUMERIC", "FLOAT", "DOUBLE", "NUMBER"}

\* ValidationEngine.isNumericType
isNumericType(type) ==
    normalize(type) \in {"INT", "INTEGER", "BIGINT", "SMALLINT", "TINYINT",
                         "DECIMAL", "NUMERIC", "FLOAT", "DOUBLE", "NUMBER"}

\* faulty variant: the name is looked up as written in the lower-cased names
schemaColumnErrors_asWritten(t, column, columnNames) ==
    (IF column.name \in columnNames
     THEN <<Finding("DUPLICATE_COLUMN_NAME",
                    "Duplicate column name '" \o column.name \o "' in table '"
                        \o t.name \o "'",
                    column.id,
                    "Rename one of the columns with duplicate names")>>
     ELSE <<>>)
    \o
    (IF IsBlank(column.name)
     THEN <<Finding("EMPTY_COLUMN_NAME",
                    "Column in table '" \o t.name \o "' has empty name",
                    column.id,
                    "Provide a name for the column")>>
     ELSE <<>>)
    \o
    (IF IsBlank(column.type)
     THEN <<Finding("EMPTY_COLUMN_TYPE",
                    "Column '" \o column.name \o "' in table '" \o t.name
                        \o "' has empty type",
                    column.id,
                    "Specify a data type for the column")>>
     ELSE <<>>)
    \o
    (IF column.primaryKey /\ column.nullable
     THEN <<Finding("PRIMARY_KEY_NULLABLE",
                    "Primary key column '" \o column.name \o "' in table '"
                        \o t.name \o "' cannot be nullable",
                    column.id,
                    "Set the column as NOT NULL")>>
     ELSE <<>>)
    \o
    (IF column.autoIncrement /\ ~isNumericType(column.type)
     THEN <<Finding("AUTO_INCREMENT_NON_NUMERIC",
                    "Auto increment column '" \o column.name \o "' in table '"
                        \o t.name \o "' must be numeric",
                    column.id,
                    "Change the column type to a numeric type (INT, BIGINT, etc.)")>>
     ELSE <<>>)

\* validateTables, body of the inner loop for one column; columnNames is the
\* set of lower-cased names of the columns before it
schemaColumnErrors(t, column, columnNames) ==
    (IF toLowerCase(column.name) \in columnNames
     THEN <<Finding("DUPLICATE_COLUMN_NAME",
                    "Duplicate column name '" \o column.name \o "' in table '"
                        \o t.name \o "'",
                    column.id,
                    "Rename one of the columns with duplicate names")>>
     ELSE <<>>)
    \o
    (IF IsBlank(column.name)
     THEN <<Finding("EMPTY_COLUMN_NAME",
                    "Column in table '" \o t.name \o "' has empty name",
                    column.id,
                    "Provide a name for the column")>>
     ELSE <<>>)
    \o
    (IF IsBlank(column.type)
     THEN <<Finding("EMPTY_COLUMN_TYPE",
                    "Column '" \o column.name \o "' in table '" \o t.name
                        \o "' has empty type",
                    column.id,
                    "Specify a data type for the column")>>
     ELSE <<>>)
    \o
    (IF column.primaryKey /\ column.nullable
     THEN <<Finding("PRIMARY_KEY_NULLABLE",
                    "Primary key column '" \o column.name \o "' in table '"
                        \o t.name \o "' cannot be nullable",
                    column.id,
                    "Set the column as NOT NULL")>>
     ELSE <<>>)
    \o
    (IF column.autoIncrement /\ ~isNumericType(column.type)
     THEN <<Finding("AUTO_INCREMENT_NON_NUMERIC",
                    "Auto increment column '" \o column.name \o "' in table '"
                        \o t.name \o "' must be numeric",
                    column.id,
                    "Change the column type to a numeric type (INT, BIGINT, etc.)")>>
     ELSE <<>>)

\* validateTables, the inner loop from column i on
RECURSIVE schemaColumnLoop(_, _, _)
schemaColumnLoop(t, i, columnNames) ==
    IF i > Len(t.columns) THEN <<>>
    ELSE schemaColumnErrors(t, t.columns[i], columnNames)
         \o schemaColumnLoop(t, i + 1, columnNames \cup {toLowerCase(t.columns[i].name)})

\* faulty variant: the primary key is looked for only when the table has columns
tablePresenceErrors_elseIf(t) ==
    (IF IsBlank(t.name)
     THEN <<Finding("TABLE_EMPTY_NAME", "Table has empty name", t.id,
                    "Provide a name for the table")>>
     ELSE <<>>)
    \o
    (IF Len(t.columns) = 0
     THEN <<Finding("TABLE_NO_COLUMNS", "Table '" \o t.name \o "' has no columns",
                    t.id, "Add at least one column to the table")>>
     ELSE IF Len(getPrimaryKeys(t)) = 0
     THEN <<Finding("TABLE_NO_PRIMARY_KEY",
                    "Table '" \o t.name \o "' has no primary key", t.id,
                    "Add a primary key to the table")>>
     ELSE <<>>)

\* the three presence checks shared by validateTables and validateTable
tablePresenceErrors(t) ==
    (IF IsBlank(t.name)
     THEN <<Finding("TABLE_EMPTY_NAME", "Table has empty name", t.id,
                    "Provide a name for the table")>>
     ELSE <<>>)
    \o
    (IF Len(t.columns) = 0
     THEN <<Finding("TABLE_NO_COLUMNS", "Table '" \o t.name \o "' has no columns",
                    t.id, "Add at least one column to the table")>>
     ELSE <<>>)
    \o
    (IF Len(getPrimaryKeys(t)) = 0
     THEN <<Finding("TABLE_NO_PRIMARY_KEY",
                    "Table '" \o t.name \o "' has no primary key", t.id,
                    "Add a primary key to the table")>>
     ELSE <<>>)

\* faulty variant: the name is looked up as written, not lower-cased
duplicateTableNameErrors_caseSensitive(t, tableNames) ==
    IF t.name \in tableNames
    THEN <<Finding("DUPLICATE_TABLE_NAME", "Duplicate table name: '" \o t.name \o "'",
                   t.id, "Rename one of the tables with duplicate names")>>
    ELSE <<>>

\* validateTables, the duplicate-name check against the names seen so far
duplicateTableNameErrors(t, tableNames) ==
    IF toLowerCase(t.name) \in tableNames
    THEN <<Finding("DUPLICATE_TABLE_NAME", "Duplicate table name: '" \o t.name \o "'",
                   t.id, "Rename one of the tables with duplicate names")>>
    ELSE <<>>

\* validateTables, the outer loop from table i on
RECURSIVE tableLoop(_, _, _)
tableLoop(s, i, tableNames) ==
    IF i > Len(s.tables) THEN <<>>
    ELSE LET t == s.tables[i]
         IN  duplicateTableNameErrors(t, tableNames)
             \o tablePresenceErrors(t)
             \o schemaColumnLoop(t, 1, {})
             \o tableLoop(s, i + 1, tableNames \cup {toLowerCase(t.name)})

validateTables(s) ==
    LET errors == tableLoop(s, 1, {})
    IN  Result(errors = <<>>, errors, <<>>)

\* faulty variant: the loop ends at the first relationship that has an error
RECURSIVE relationshipLoop(_, _)
relationshipLoop_stopsAtError(s, i) ==
    IF i > Len(s.relationships) THEN <<<<>>, <<>>>>
    ELSE LET result == Relationship_validate(s.relationships[i], s)
             rest == IF result.errors # <<>> THEN <<<<>>, <<>>>>
                     ELSE relationshipLoop(s, i + 1)
         IN  <<result.errors \o rest[1], result.warnings \o rest[2]>>

\* validateRelationships, the loop from relationship i on: <<errors, warnings>>
relationshipLoop(s, i) ==
    IF i > Len(s.relationships) THEN <<<<>>, <<>>>>
    ELSE LET result == Relationship_validate(s.relationships[i], s)
             rest == relationshipLoop(s, i + 1)
         IN  <<result.errors \o rest[1], result.warnings \o rest[2]>>

validateRelationships(s) ==
    LET ew == relationshipLoop(s, 1)
    IN  Result(ew[1] = <<>>, ew[1], ew[2])

(***************************************************************************)
(* checkCircularDependencies: depth-first search with the shared sets      *)
(* visited and recursionStack and the shared warnings array, threaded      *)
(* through the recursion as the record st                                  *)
(***************************************************************************)
RECURSIVE join(_, _)
join(parts, sep) ==
    IF Len(parts) = 0 THEN ""
    ELSE IF Len(parts) = 1 THEN parts[1]
    ELSE parts[1] \o sep \o join(Tail(parts), sep)

\* path.indexOf(tableId)
indexOf(path, x) ==
    IF \E i \in 1..Len(path) : path[i] = x
    THEN CHOOSE i \in 1..Len(path) : path[i] = x /\ \A j \in 1..(i - 1) : path[j] # x
    ELSE 0

\* path.slice(start): a negative start counts from the end of the array
slice(path, start) ==
    LET from == IF start < 0 THEN (IF Len(path) + start < 0 THEN 0 ELSE Len(path) + start)
                ELSE start
    IN  [i \in 1..(IF Len(path) > from THEN Len(path) - from ELSE 0) |-> path[from + i]]

\* path.slice(cycleStart).map(id => table ? table.name : id); indexOf is counted
\* from 1 here, so that cycleStart is indexOf - 1, and -1 when the id is not found
cycleNames(s, tableId, path) ==
    LET cycleStart == indexOf(path, tableId) - 1
        cycle == slice(path, cycleStart)
    IN  [i \in 1..Len(cycle) |->
            IF HasTable(s, cycle[i]) THEN getTable(s, cycle[i]).name ELSE cycle[i]]

cycleWarning(s, tableId, path) ==
    Finding("CIRCULAR_DEPENDENCY",
            "Circular dependency detected: " \o join(cycleNames(s, tableId, path), " → "),
            tableId,
            "Review the relationships to break the circular dependency")

\* faulty variant: the table is never added to visited
RECURSIVE followRelationships(_, _, _, _, _)
RECURSIVE hasCycle_neverVisited(_, _, _, _)
hasCycle_neverVisited(s, tableId, path, st) ==
    IF tableId \in st.recursionStack
    THEN [st EXCEPT !.warnings = Append(@, cycleWarning(s, tableId, path))]
    ELSE IF tableId \in st.visited
    THEN st
    ELSE [followRelationships(s, 1, tableId, Append(path, tableId),
                              [visited |-> st.visited,
                               recursionStack |-> st.recursionStack \cup {tableId},
                               warnings |-> st.warnings,
                               scanned |-> Append(st.scanned, tableId)])
            EXCEPT !.recursionStack = @ \ {tableId}]

\* faulty variant: the table stays in recursionStack when the call returns
RECURSIVE hasCycle_noStackDelete(_, _, _, _)
hasCycle_noStackDelete(s, tableId, path, st) ==
    IF tableId \in st.recursionStack
    THEN [st EXCEPT !.warnings = Append(@, cycleWarning(s, tableId, path))]
    ELSE IF tableId \in st.visited
    THEN st
    ELSE followRelationships(s, 1, tableId, Append(path, tableId),
                             [visited |-> st.visited \cup {tableId},
                              recursionStack |-> st.recursionStack \cup {tableId},
                              warnings |-> st.warnings,
                              scanned |-> Append(st.scanned, tableId)])

\* faulty variant: visited is tested before recursionStack
RECURSIVE hasCycle_visitedFirst(_, _, _, _)
hasCycle_visitedFirst(s, tableId, path, st) ==
    IF tableId \in st.visited
    THEN st
    ELSE IF tableId \in st.recursionStack
    THEN [st EXCEPT !.warnings = Append(@, cycleWarning(s, tableId, path))]
    ELSE [followRelationships(s, 1, tableId, Append(path, tableId),
                              [visited |-> st.visited \cup {tableId},
                               recursionStack |-> st.recursionStack \cup {tableId},
                               warnings |-> st.warnings,
                               scanned |-> Append(st.scanned, tableId)])
            EXCEPT !.recursionStack = @ \ {tableId}]

RECURSIVE hasCycle(_, _, _, _)
hasCycle(s, tableId, path, st) ==
    IF tableId \in st.recursionStack
    THEN [st EXCEPT !.warnings = Append(@, cycleWarning(s, tableId, path))]
    ELSE IF tableId \in st.visited
    THEN st
    ELSE [followRelationships(s, 1, tableId, Append(path, tableId),
                              [visited |-> st.visited \cup {tableId},
                               recursionStack |-> st.recursionStack \cup {tableId},
                               warnings |-> st.warnings,
                               scanned |-> Append(st.scanned, tableId)])
            EXCEPT !.recursionStack = @ \ {tableId}]

\* for (const rel of relationships.values()) if (rel.sourceTableId === tableId) ...
followRelationships(s, i, tableId, path, st) ==
    IF i > Len(s.relationships) THEN st
    ELSE followRelationships(s, i + 1, tableId, path,
            IF s.relationships[i].sourceTableId = tableId
            THEN hasCycle(s, s.relationships[i].targetTableId, path, st)
            ELSE st)

\* for (const tableId of tables.keys()) if (!visited.has(tableId)) hasCycle(tableId, [])
RECURSIVE checkEachTable(_, _, _)
checkEachTable(s, i, st) ==
    IF i > Len(s.tables) THEN st
    ELSE checkEachTable(s, i + 1,
            IF s.tables[i].id \notin st.visited
            THEN hasCycle(s, s.tables[i].id, <<>>, st)
            ELSE st)

\* faulty variant: visited is kept from the preceding validateSchema() run
checkCircularDependencies_keepsVisited(s) ==
    Result(TRUE, <<>>,
           checkEachTable(s, 1,
                          [visited |-> IF call.op = "validateSchema"
                                       THEN MapKeys(s.tables) ELSE {},
                           recursionStack |-> {},
                           warnings |-> <<>>,
                           scanned |-> <<>>]).warnings)

\* the sets and the warnings when the loop over the tables has ended; scanned lists
\* the table ids in the order in which their relationship loop was entered
searchTables(s) ==
    checkEachTable(s, 1, [visited |-> {}, recursionStack |-> {},
                          warnings |-> <<>>, scanned |-> <<>>])

checkCircularDependencies(s) == Result(TRUE, <<>>, searchTables(s).warnings)

(***************************************************************************)
(* checkOrphanTables                                                       *)
(***************************************************************************)
\* faulty variant: only the source end of a relationship counts as connected
connectedTables_sourcesOnly(s) ==
    {s.relationships[i].sourceTableId : i \in 1..Len(s.relationships)}

connectedTables(s) ==
    {s.relationships[i].sourceTableId : i \in 1..Len(s.relationships)}
    \cup {s.relationships[i].targetTableId : i \in 1..Len(s.relationships)}

orphanWarning(t) ==
    Finding("ORPHAN_TABLE",
            "Table '" \o t.name \o "' has no relationships with other tables",
            t.id,
            "Consider adding relationships or removing the table if not needed")

RECURSIVE orphanLoop(_, _)
orphanLoop(s, i) ==
    IF i > Len(s.tables) THEN <<>>
    ELSE (IF s.tables[i].id \notin connectedTables(s)
          THEN <<orphanWarning(s.tables[i])>> ELSE <<>>)
         \o orphanLoop(s, i + 1)

checkOrphanTables(s) ==
    IF Len(s.tables) <= 1
    THEN Result(TRUE, <<>>, <<>>)
    ELSE Result(TRUE, <<>>, orphanLoop(s, 1))

(***************************************************************************)
(* validateSchema, validateTable, validateRelationship                     *)
(***************************************************************************)
\* faulty variant: the later passes are skipped once the table pass has found errors
validateSchema_shortCircuit(s) ==
    IF validateTables(s).errors # <<>>
    THEN validateTables(s)
    ELSE Result(validateRelationships(s).errors = <<>>,
                validateRelationships(s).errors,
                validateRelationships(s).warnings
                    \o checkCircularDependencies(s).warnings
                    \o checkOrphanTables(s).warnings)

\* faulty variant: valid is taken from the table pass alone
validateSchema_validFromTables(s) ==
    Result(validateTables(s).valid,
           validateTables(s).errors \o validateRelationships(s).errors,
           validateTables(s).warnings
               \o validateRelationships(s).warnings
               \o checkCircularDependencies(s).warnings
               \o checkOrphanTables(s).warnings)

validateSchema(s) ==
    LET errors == validateTables(s).errors \o validateRelationships(s).errors
        warnings == validateTables(s).warnings
                    \o validateRelationships(s).warnings
                    \o checkCircularDependencies(s).warnings
                    \o checkOrphanTables(s).warnings
    IN  Result(errors = <<>>, errors, warnings)

\* validateTable, body of the column loop for one column
tableColumnErrors(t, column, columnNames) ==
    (IF toLowerCase(column.name) \in columnNames
     THEN <<Finding("DUPLICATE_COLUMN_NAME",
                    "Duplicate column name '" \o column.name \o "' in table '"
                        \o t.name \o "'",
                    column.id,
                    "Rename one of the columns with duplicate names")>>
     ELSE <<>>)
    \o
    (IF IsBlank(column.name)
     THEN <<Finding("COLUMN_EMPTY_NAME",
                    "Column in table '" \o t.name \o "' has empty name",
                    column.id,
                    "Provide a name for the column")>>
     ELSE <<>>)
    \o
    (IF IsBlank(column.type)
     THEN <<Finding("COLUMN_EMPTY_TYPE",
                    "Column '" \o column.name \o "' in table '" \o t.name
                        \o "' has empty type",
                    column.id,
                    "Specify a data type for the column")>>
     ELSE <<>>)

RECURSIVE tableColumnLoop(_, _, _)
tableColumnLoop(t, i, columnNames) ==
    IF i > Len(t.columns) THEN <<>>
    ELSE tableColumnErrors(t, t.columns[i], columnNames)
         \o tableColumnLoop(t, i + 1, columnNames \cup {toLowerCase(t.columns[i].name)})

\* faulty variant: a table that is not there has nothing to report
validateTable_missingIsValid(s, tableId) ==
    IF ~HasTable(s, tableId)
    THEN Result(TRUE, <<>>, <<>>)
    ELSE LET t == getTable(s, tableId)
             errors == tablePresenceErrors(t) \o tableColumnLoop(t, 1, {})
         IN  Result(errors = <<>>, errors, <<>>)

validateTable(s, tableId) ==
    IF ~HasTable(s, tableId)
    THEN Result(FALSE,
                <<Finding("TABLE_NOT_FOUND",
                          "Table with ID '" \o tableId \o "' not found",
                          tableId, "Check if the table exists")>>,
                <<>>)
    ELSE LET t == getTable(s, tableId)
             errors == tablePresenceErrors(t) \o tableColumnLoop(t, 1, {})
         IN  Result(errors = <<>>, errors, <<>>)

\* faulty variant: no early return guards the column lookup, so that a missing
\* table is dereferenced and the call ends in a TypeError instead of a result
validateRelationship_dereferencesMissing(s, relationshipId) ==
    IF ~HasRelationship(s, relationshipId)
    THEN Result(FALSE,
                <<Finding("RELATIONSHIP_NOT_FOUND",
                          "Relationship with ID '" \o relationshipId \o "' not found",
                          relationshipId, "Check if the relationship exists")>>,
                <<>>)
    ELSE IF tablesMissing(getRelationship(s, relationshipId), s)
    THEN [thrown |-> "TypeError"]
    ELSE Relationship_validate(getRelationship(s, relationshipId), s)

validateRelationship(s, relationshipId) ==
    IF ~HasRelationship(s, relationshipId)
    THEN Result(FALSE,
                <<Finding("RELATIONSHIP_NOT_FOUND",
                          "Relationship with ID '" \o relationshipId \o "' not found",
                          relationshipId, "Check if the relationship exists")>>,
                <<>>)
    ELSE Relationship_validate(getRelationship(s, relationshipId), s)

(***************************************************************************)
(* toJSON / fromJSON / clone                                               *)
(***************************************************************************)
Column_toJSON(c) ==
    [id |-> c.id, name |-> c.name, type |-> c.type, nullable |-> c.nullable,
     primaryKey |-> c.primaryKey, foreignKey |-> c.foreignKey, unique |-> c.unique,
     autoIncrement |-> c.autoIncrement]

Column_fromJSON(json) ==
    [Column(json.id, json.name, json.type) EXCEPT
        !.nullable = json.nullable, !.primaryKey = json.primaryKey,
        !.foreignKey = json.foreignKey, !.unique = json.unique,
        !.autoIncrement = json.autoIncrement]

Table_toJSON(t) ==
    [id |-> t.id, name |-> t.name,
     columns |-> [i \in 1..Len(t.columns) |-> Column_toJSON(t.columns[i])]]

\* for (const colData of json.columns) table.addColumn(Column.fromJSON(colData))
RECURSIVE addColumnsFromJSON(_, _, _)
addColumnsFromJSON(t, columns, i) ==
    IF i > Len(columns) THEN t
    ELSE addColumnsFromJSON(Table_addColumn(t, Column_fromJSON(columns[i])), columns, i + 1)

Table_fromJSON(json) == addColumnsFromJSON(Table(json.id, json.name), json.columns, 1)

Relationship_toJSON(r) ==
    [id |-> r.id, type |-> r.type,
     sourceTableId |-> r.sourceTableId, targetTableId |-> r.targetTableId,
     sourceColumnId |-> r.sourceColumnId, targetColumnId |-> r.targetColumnId]

Relationship_fromJSON(json) ==
    Relationship(json.id, json.type, json.sourceTableId, json.targetTableId,
                 json.sourceColumnId, json.targetColumnId)

Schema_toJSON(s) ==
    [tables |-> [i \in 1..Len(s.tables) |-> Table_toJSON(s.tables[i])],
     relationships |->
        [i \in 1..Len(s.relationships) |-> Relationship_toJSON(s.relationships[i])]]

RECURSIVE addTablesFromJSON(_, _, _)
addTablesFromJSON(s, ts, i) ==
    IF i > Len(ts) THEN s
    ELSE addTablesFromJSON(Schema_addTable(s, Table_fromJSON(ts[i])), ts, i + 1)

\* faulty variant: a relationship whose tables are not in the schema is rejected
RECURSIVE addRelationshipsFromJSON_rejectDangling(_, _, _)
addRelationshipsFromJSON_rejectDangling(s, rs, i) ==
    IF i > Len(rs) THEN s
    ELSE addRelationshipsFromJSON_rejectDangling(
            IF HasTable(s, rs[i].sourceTableId) /\ HasTable(s, rs[i].targetTableId)
            THEN Schema_addRelationship(s, Relationship_fromJSON(rs[i]))
            ELSE s,
            rs, i + 1)

RECURSIVE addRelationshipsFromJSON(_, _, _)
addRelationshipsFromJSON(s, rs, i) ==
    IF i > Len(rs) THEN s
    ELSE addRelationshipsFromJSON(Schema_addRelationship(s, Relationship_fromJSON(rs[i])),
                                  rs, i + 1)

Schema_fromJSON(json) ==
    addRelationshipsFromJSON(addTablesFromJSON(Schema(<<>>, <<>>), json.tables, 1),
                             json.relationships, 1)

clone(s) == Schema_fromJSON(Schema_toJSON(s))

(***************************************************************************)
(* Inputs of the operations                                                *)
(***************************************************************************)
\* the name given to the n-th table created
TableNameInputs == <<"users", "Posts", "USERS", "posts">>

TableNameInput(n) == TableNameInputs[((n - 1) % Len(TableNameInputs)) + 1]

idColumn ==
    [Column("c1", "id", "INT") EXCEPT
        !.nullable = FALSE, !.primaryKey = TRUE, !.autoIncrement = TRUE]

(***************************************************************************)
(* Operations on the schema                                                *)
(***************************************************************************)
Void == "void"

Call(op, arg) == [op |-> op, arg |-> arg]

\* the ids generateId has handed out so far
CreatedTableIds == {TableId(n) : n \in 1..(nextTableId - 1)}
CreatedRelIds == {RelId(n) : n \in 1..(nextRelId - 1)}

Init ==
    /\ tables = <<>>
    /\ relationships = <<>>
    /\ nextTableId = 1
    /\ nextRelId = 1
    /\ call = Call("new", "")
    /\ ret = Void
    /\ Others

\* schema.addTable(Table.create(name, x, y))
AddTable ==
    /\ nextTableId <= MaxTables
    /\ tables' = Schema_addTable(schema, Table(TableId(nextTableId),
                                               TableNameInput(nextTableId))).tables
    /\ nextTableId' = nextTableId + 1
    /\ call' = Call("addTable", TableId(nextTableId))
    /\ ret' = Void
    /\ UNCHANGED <<search, tool, wizard, relationships, nextRelId>>

\* schema.removeTable(id)
RemoveTable ==
    \E id \in CreatedTableIds :
        /\ tables' = Schema_removeTable(schema, id).tables
        /\ relationships' = Schema_removeTable(schema, id).relationships
        /\ call' = Call("removeTable", id)
        /\ ret' = Void
        /\ UNCHANGED <<search, tool, wizard, nextTableId, nextRelId>>

\* schema.getTable(id).addColumn(idColumn), for a table that does not hold it yet
AddColumn ==
    \E id \in MapKeys(tables) :
        /\ ~HasColumn(getTable(schema, id), idColumn.id)
        /\ tables' = Schema_addTable(schema,
                                     Table_addColumn(getTable(schema, id), idColumn)).tables
        /\ call' = Call("addColumn", id)
        /\ ret' = Void
        /\ UNCHANGED <<search, tool, wizard, relationships, nextTableId, nextRelId>>

\* schema.getTable(id).removeColumn(idColumn.id)
RemoveColumn ==
    \E id \in MapKeys(tables) :
        /\ tables' = Schema_addTable(schema,
                                     Table_removeColumn(getTable(schema, id),
                                                        idColumn.id)).tables
        /\ call' = Call("removeColumn", id)
        /\ ret' = Void
        /\ UNCHANGED <<search, tool, wizard, relationships, nextTableId, nextRelId>>

\* schema.addRelationship(Relationship.create(type, source, target, sourceColumn,
\* targetColumn)), the tables being any two that were ever created
AddRelationship ==
    \E sourceTableId \in CreatedTableIds, targetTableId \in CreatedTableIds :
        /\ nextRelId <= MaxRels
        /\ relationships' =
              Schema_addRelationship(schema,
                  Relationship(RelId(nextRelId), "one-to-many",
                               sourceTableId, targetTableId,
                               idColumn.id, idColumn.id)).relationships
        /\ nextRelId' = nextRelId + 1
        /\ call' = Call("addRelationship", RelId(nextRelId))
        /\ ret' = Void
        /\ UNCHANGED <<search, tool, wizard, tables, nextTableId>>

\* schema.removeRelationship(id)
RemoveRelationship ==
    \E id \in CreatedRelIds :
        /\ relationships' = Schema_removeRelationship(schema, id).relationships
        /\ call' = Call("removeRelationship", id)
        /\ ret' = Void
        /\ UNCHANGED <<search, tool, wizard, tables, nextTableId, nextRelId>>

\* engine.validateSchema()
ValidateSchema ==
    /\ call' = Call("validateSchema", "")
    /\ ret' = validateSchema(schema)
    /\ UNCHANGED <<search, tool, wizard, tables, relationships, nextTableId, nextRelId>>

\* engine.validateTable(id)
ValidateTable ==
    \E id \in AllTableIds :
        /\ call' = Call("validateTable", id)
        /\ ret' = validateTable(schema, id)
        /\ UNCHANGED <<search, tool, wizard, tables, relationships, nextTableId, nextRelId>>

\* engine.validateRelationship(id)
ValidateRelationship ==
    \E id \in AllRelIds :
        /\ call' = Call("validateRelationship", id)
        /\ ret' = validateRelationship(schema, id)
        /\ UNCHANGED <<search, tool, wizard, tables, relationships, nextTableId, nextRelId>>

\* schema.clone()
Clone ==
    /\ call' = Call("clone", "")
    /\ ret' = clone(schema)
    /\ UNCHANGED <<search, tool, wizard, tables, relationships, nextTableId, nextRelId>>

Next ==
    \/ AddTable
    \/ RemoveTable
    \/ AddColumn
    \/ RemoveColumn
    \/ AddRelationship
    \/ RemoveRelationship
    \/ ValidateSchema
    \/ ValidateTable
    \/ ValidateRelationship
    \/ Clone

Spec == Init /\ [][Next]_vars

(***************************************************************************)
(* Relationship.validate as a function of the relationship and the schema: *)
(* the schema is drawn from a family of two-table schemas, then one call   *)
(***************************************************************************)
RelFillers == 1

RelColumnTypes ==
    {"INT", "bigint", " Int ", "VARCHAR(50)", "char(50)", "DATE", "timestamp", "UUID", ""}

RelationTypes == {"one-to-one", "one-to-many", "many-to-many"}

\* the column the relationship starts from, when the source table has it
RelSourceColumns ==
    {Column("c1", "users_id", type) : type \in RelColumnTypes}
    \cup {[Column("c1", "id", "INT") EXCEPT !.primaryKey = TRUE, !.nullable = FALSE],
          [Column("c1", "USERS_ID", "INT") EXCEPT !.unique = TRUE],
          Column("c1", "posts_id", "INT")}

\* the column the relationship points to, when the target table has it
RelTargetColumns ==
    {[Column("c2", "id", type) EXCEPT !.primaryKey = TRUE, !.nullable = FALSE] :
        type \in RelColumnTypes}
    \cup {Column("c2", "id", "INT"),
          [Column("c2", "id", "INT") EXCEPT !.unique = TRUE]}

\* k columns no relationship refers to
fillerColumns(k) == [i \in 1..k |-> Column("f" \o ToString(i), "note" \o ToString(i), "TEXT")]

\* the lists of columns a table of the family may hold
RelColumnLists(columns) ==
    {fillerColumns(k) : k \in 0..RelFillers}
    \cup {fillerColumns(k) \o <<c>> : k \in 0..RelFillers, c \in columns}

RelInit ==
    \E sourceColumns \in RelColumnLists(RelSourceColumns),
       targetColumns \in RelColumnLists(RelTargetColumns),
       present \in SUBSET {"t1", "t2"},
       type \in RelationTypes,
       targetTableId \in {"t1", "t2"},
       targetColumnId \in {"c1", "c2"} :
        /\ tables = SelectSeq(<<[Table("t1", "posts") EXCEPT !.columns = sourceColumns],
                                [Table("t2", "users") EXCEPT !.columns = targetColumns]>>,
                              LAMBDA t : t.id \in present)
        /\ relationships = <<Relationship("r1", type, "t1", targetTableId,
                                          "c1", targetColumnId)>>
        /\ nextTableId = 3
        /\ nextRelId = 2
        /\ call = Call("new", "")
        /\ ret = Void
        /\ Others

\* relationship.validate(schema), for a relationship of the schema
RelationshipValidate ==
    \E i \in 1..Len(relationships) :
        /\ call.op = "new"
        /\ call' = Call("validate", relationships[i].id)
        /\ ret' = Relationship_validate(relationships[i], schema)
        /\ UNCHANGED <<search, tool, wizard, tables, relationships, nextTableId, nextRelId>>

RelNext == RelationshipValidate

SpecRel == RelInit /\ [][RelNext]_vars

(***************************************************************************)
(* areTypesCompatible as a function of two type strings                    *)
(***************************************************************************)
MaxPad == 1

TypeBases ==
    {"INT", "BIGINT", "NUMBER", "VARCHAR", "CHAR", "TEXT",
     "DATE", "TIME", "TIMESTAMP", "UUID", "JSON", ""}

RECURSIVE spaces(_)
spaces(k) == IF k = 0 THEN "" ELSE " " \o spaces(k - 1)

\* spellings of the base types: either case, padded, with or without a length
TypeInputs ==
    {spaces(k) \o name \o spaces(k) \o suffix :
        name \in TypeBases \cup {toLowerCase(b) : b \in TypeBases},
        k \in 0..MaxPad,
        suffix \in {"", "(50)"}}

TypesInit ==
    \E type1 \in TypeInputs, type2 \in TypeInputs :
        /\ tables = <<>>
        /\ relationships = <<>>
        /\ nextTableId = 1
        /\ nextRelId = 1
        /\ call = Call("new", <<type1, type2>>)
        /\ ret = Void
        /\ Others

\* this.areTypesCompatible(type1, type2)
AreTypesCompatible ==
    /\ call.op = "new"
    /\ call' = Call("areTypesCompatible", call.arg)
    /\ ret' = areTypesCompatible(call.arg[1], call.arg[2])
    /\ UNCHANGED <<search, tool, wizard, tables, relationships, nextTableId, nextRelId>>

TypesNext == AreTypesCompatible

SpecTypes == TypesInit /\ [][TypesNext]_vars

(***************************************************************************)
(* validateSchema as a function of the schema: the relationship graph is   *)
(* drawn over three table ids, of which a prefix exists as tables          *)
(***************************************************************************)
GraphRels == 3

GraphTableIds == <<"t1", "t2", "t3">>

GraphTableNames == <<"users", "posts", "comments">>

GraphInit ==
    \E k \in 0..Len(GraphTableIds), n \in 0..GraphRels :
        \E edges \in [1..n -> (1..Len(GraphTableIds)) \X (1..Len(GraphTableIds))] :
            /\ tables = [i \in 1..k |->
                            Table_addColumn(Table(GraphTableIds[i], GraphTableNames[i]),
                                            idColumn)]
            /\ relationships =
                  [i \in 1..n |->
                      Relationship(RelId(i), "one-to-one",
                                   GraphTableIds[edges[i][1]], GraphTableIds[edges[i][2]],
                                   idColumn.id, idColumn.id)]
            /\ nextTableId = k + 1
            /\ nextRelId = n + 1
            /\ call = Call("new", "")
            /\ ret = Void
            /\ Others

GraphNext == ValidateSchema

SpecGraph == GraphInit /\ [][GraphNext]_vars

(***************************************************************************)
(* validateSchema over schemas whose tables differ in their names only     *)
(***************************************************************************)
MaxNameTables == 3

NameInputs == {"users", "Users", "USERS", "posts", ""}

NamesInit ==
    \E k \in 0..MaxNameTables :
        \E names \in [1..k -> NameInputs] :
            /\ tables = [i \in 1..k |->
                            Table_addColumn(Table(TableId(i), names[i]), idColumn)]
            /\ relationships = <<>>
            /\ nextTableId = k + 1
            /\ nextRelId = 1
            /\ call = Call("new", "")
            /\ ret = Void
            /\ Others

NamesNext == ValidateSchema

SpecNames == NamesInit /\ [][NamesNext]_vars

(***************************************************************************)
(* validateSchema and validateTable over schemas whose tables differ in    *)
(* their columns: table t1 holds a list of columns, a second table may     *)
(* stand beside it                                                         *)
(***************************************************************************)
MaxColumns == 3

ColumnId(tableId, i) == tableId \o "c" \o ToString(i)

\* columns as Column.create makes them, before any id is handed out
ColumnInputs ==
    {[Column("", "id", "INT") EXCEPT
         !.primaryKey = TRUE, !.nullable = FALSE, !.autoIncrement = TRUE],
     [Column("", "ID", "VARCHAR(50)") EXCEPT !.primaryKey = TRUE, !.autoIncrement = TRUE],
     [Column("", "Id", " bigint(20) ") EXCEPT !.autoIncrement = TRUE],
     Column("", " ", "INT"),
     [Column("", "", "") EXCEPT !.autoIncrement = TRUE],
     Column("", "name", " ")}

ColumnLists == UNION {[1..k -> ColumnInputs] : k \in 0..MaxColumns}

\* the table with that id and name holding the columns, each under its own id
TableOf(id, name, columns) ==
    [Table(id, name) EXCEPT
        !.columns = [i \in 1..Len(columns) |->
                        [columns[i] EXCEPT !.id = ColumnId(id, i)]]]

\* what the second table holds: nothing, the first column of t1, or an id column
SecondColumnLists(columns) ==
    {<<>>, SubSeq(columns, 1, IF Len(columns) > 0 THEN 1 ELSE 0), <<idColumn>>}

ColumnsInit ==
    \E columns \in ColumnLists, name \in {"users", " "}, second \in BOOLEAN :
        \E others \in SecondColumnLists(columns) :
            /\ tables = IF second
                        THEN <<TableOf("t1", name, columns), TableOf("t2", "", others)>>
                        ELSE <<TableOf("t1", name, columns)>>
            /\ relationships = <<>>
            /\ nextTableId = Len(tables) + 1
            /\ nextRelId = 1
            /\ call = Call("new", "")
            /\ ret = Void
            /\ Others

ColumnsNext ==
    \/ ValidateSchema
    \/ ValidateTable

SpecColumns == ColumnsInit /\ [][ColumnsNext]_vars

(***************************************************************************)
(* validateSchema and validateRelationship over schemas of two tables and  *)
(* a list of relationships, sound and dangling ones                        *)
(***************************************************************************)
DelegateRels == 2

DelegateTables ==
    <<TableOf("t1", "posts", <<Column("", "users_id", "INT")>>),
      TableOf("t2", "users",
              <<[Column("", "id", "VARCHAR(36)") EXCEPT
                    !.primaryKey = TRUE, !.nullable = FALSE]>>)>>

\* relationships as Relationship.create makes them, before any id is handed out:
\* between the two tables and a table t9 that does not exist, on the column of each
\* table, and two on a column that does not exist
RelationshipInputs ==
    {Relationship("", "one-to-many", source, target,
                  ColumnId(source, 1), ColumnId(target, 1)) :
        source \in {"t1", "t2", "t9"}, target \in {"t1", "t2", "t9"}}
    \cup {Relationship("", "one-to-one", "t1", "t2", "t1c1", "t2c9"),
          Relationship("", "many-to-many", "t1", "t2", "t1c9", "t2c1")}

DelegateInit ==
    \E n \in 0..DelegateRels :
        \E rels \in [1..n -> RelationshipInputs] :
            /\ tables = DelegateTables
            /\ relationships = [i \in 1..n |-> [rels[i] EXCEPT !.id = RelId(i)]]
            /\ nextTableId = Len(DelegateTables) + 1
            /\ nextRelId = n + 1
            /\ call = Call("new", "")
            /\ ret = Void
            /\ Others

\* engine.validateRelationship(id), for the ids handed out and the next one
ValidateAnyRelationship ==
    \E id \in {RelId(n) : n \in 1..(DelegateRels + 1)} :
        /\ call' = Call("validateRelationship", id)
        /\ ret' = validateRelationship(schema, id)
        /\ UNCHANGED <<search, tool, wizard, tables, relationships, nextTableId, nextRelId>>

DelegateNext ==
    \/ ValidateSchema
    \/ ValidateAnyRelationship

SpecDelegate == DelegateInit /\ [][DelegateNext]_vars

(***************************************************************************)
(* checkCircularDependencies followed call by call. search.frames is the   *)
(* stack of the hasCycle calls that have entered their relationship loop,  *)
(* the innermost call last; each frame holds the call's tableId, its path  *)
(* after the push, and the position of its loop in relationships.values()  *)
(***************************************************************************)
SearchRels == 2

Frame(tableId, path) == [tableId |-> tableId, path |-> path, relIndex |-> 1]

\* hasCycle(tableId, path) up to its loop: the two early returns leave no frame
enterCall(s, sr, tableId, path) ==
    IF tableId \in sr.recursionStack
    THEN [sr EXCEPT !.warnings = Append(@, cycleWarning(s, tableId, path))]
    ELSE IF tableId \in sr.visited
    THEN sr
    ELSE [sr EXCEPT !.visited = @ \cup {tableId},
                    !.recursionStack = @ \cup {tableId},
                    !.frames = Append(@, Frame(tableId, Append(path, tableId)))]

\* faulty variant: the loop moves to the next relationship only after following one
scanRelationship_advancesOnMatch(s, sr) ==
    LET top == sr.frames[Len(sr.frames)]
        r == s.relationships[top.relIndex]
    IN  IF r.sourceTableId = top.tableId
        THEN enterCall(s, [sr EXCEPT !.frames[Len(sr.frames)].relIndex = @ + 1],
                       r.targetTableId, top.path)
        ELSE sr

\* one turn of the loop over relationships.values() in the innermost call
scanRelationship(s, sr) ==
    LET top == sr.frames[Len(sr.frames)]
        r == s.relationships[top.relIndex]
        advanced == [sr EXCEPT !.frames[Len(sr.frames)].relIndex = @ + 1]
    IN  IF r.sourceTableId = top.tableId
        THEN enterCall(s, advanced, r.targetTableId, top.path)
        ELSE advanced

\* recursionStack.delete(tableId); return false
returnFromCall(sr) ==
    [sr EXCEPT !.recursionStack = @ \ {sr.frames[Len(sr.frames)].tableId},
               !.frames = SubSeq(@, 1, Len(@) - 1)]

\* one turn of the loop over tables.keys()
checkTable(s, sr) ==
    LET tableId == s.tables[sr.tableIndex].id
        advanced == [sr EXCEPT !.tableIndex = @ + 1]
    IN  IF tableId \notin sr.visited
        THEN enterCall(s, advanced, tableId, <<>>)
        ELSE advanced

SearchInit ==
    \E k \in 0..Len(GraphTableIds), n \in 0..SearchRels :
        \E edges \in [1..n -> (1..Len(GraphTableIds)) \X (1..Len(GraphTableIds))] :
            /\ tables = [i \in 1..k |->
                            Table_addColumn(Table(GraphTableIds[i], GraphTableNames[i]),
                                            idColumn)]
            /\ relationships =
                  [i \in 1..n |->
                      Relationship(RelId(i), "one-to-one",
                                   GraphTableIds[edges[i][1]], GraphTableIds[edges[i][2]],
                                   idColumn.id, idColumn.id)]
            /\ nextTableId = k + 1
            /\ nextRelId = n + 1
            /\ call = Call("new", "")
            /\ ret = Void
            /\ Others

\* const warnings = []; const visited = new Set(); const recursionStack = new Set()
StartSearch ==
    /\ search.pc = "idle"
    /\ search' = [SearchIdle EXCEPT !.pc = "tables"]
    /\ call' = Call("checkCircularDependencies", "")
    /\ UNCHANGED <<tables, relationships, nextTableId, nextRelId, ret, tool, wizard>>

CheckTable ==
    /\ search.pc = "tables"
    /\ search.frames = <<>>
    /\ search.tableIndex <= Len(tables)
    /\ search' = checkTable(schema, search)
    /\ UNCHANGED <<tables, relationships, nextTableId, nextRelId, call, ret, tool, wizard>>

ScanRelationship ==
    /\ search.pc = "tables"
    /\ search.frames # <<>>
    /\ search.frames[Len(search.frames)].relIndex <= Len(relationships)
    /\ search' = scanRelationship(schema, search)
    /\ UNCHANGED <<tables, relationships, nextTableId, nextRelId, call, ret, tool, wizard>>

ReturnFromCall ==
    /\ search.pc = "tables"
    /\ search.frames # <<>>
    /\ search.frames[Len(search.frames)].relIndex > Len(relationships)
    /\ search' = returnFromCall(search)
    /\ UNCHANGED <<tables, relationships, nextTableId, nextRelId, call, ret, tool, wizard>>

\* return { valid: true, errors: [], warnings }: the search is done, and
\* search.warnings are the warnings of the result
FinishSearch ==
    /\ search.pc = "tables"
    /\ search.frames = <<>>
    /\ search.tableIndex > Len(tables)
    /\ search' = [search EXCEPT !.pc = "done"]
    /\ UNCHANGED <<tables, relationships, nextTableId, nextRelId, call, ret, tool, wizard>>

SearchNext ==
    \/ StartSearch
    \/ CheckTable
    \/ ScanRelationship
    \/ ReturnFromCall
    \/ FinishSearch

\* the engine runs synchronously: a call that can take a step takes it
SpecSearch == SearchInit /\ [][SearchNext]_vars /\ WF_search(SearchNext)

(***************************************************************************)
(* Removing columns and relationships from a schema of two tables of two   *)
(* columns each and a list of relationships over their columns             *)
(***************************************************************************)
RemoveRels == 2

TwoColumnTables ==
    <<TableOf("t1", "posts",
              <<Column("", "users_id", "INT"), Column("", "title", "VARCHAR(100)")>>),
      TableOf("t2", "users",
              <<[Column("", "id", "INT") EXCEPT !.primaryKey = TRUE, !.nullable = FALSE],
                Column("", "name", "VARCHAR(50)")>>)>>

\* relationships over columns that exist, one of them to a table t9 that does not
RemoveInputs ==
    {Relationship("", "one-to-many", "t1", "t2", "t1c1", "t2c1"),
     Relationship("", "one-to-one", "t1", "t2", "t1c2", "t2c2"),
     Relationship("", "one-to-many", "t2", "t1", "t2c1", "t1c2"),
     Relationship("", "one-to-many", "t1", "t9", "t1c1", "t9c1"),
     Relationship("", "one-to-many", "t1", "t1", "t1c1", "t1c2")}

RemoveInit ==
    \E n \in 0..RemoveRels :
        \E rels \in [1..n -> RemoveInputs] :
            /\ tables = TwoColumnTables
            /\ relationships = [i \in 1..n |-> [rels[i] EXCEPT !.id = RelId(i)]]
            /\ nextTableId = Len(TwoColumnTables) + 1
            /\ nextRelId = n + 1
            /\ call = Call("new", "")
            /\ ret = Void
            /\ Others

\* schema.getTable(id).removeColumn(columnId), for the column ids of the table and
\* one it never held
RemoveAnyColumn ==
    \E id \in MapKeys(tables), n \in 1..3 :
        /\ tables' = Schema_addTable(schema,
                                     Table_removeColumn(getTable(schema, id),
                                                        ColumnId(id, n))).tables
        /\ call' = Call("removeColumn", ColumnId(id, n))
        /\ ret' = Void
        /\ UNCHANGED <<search, tool, wizard, relationships, nextTableId, nextRelId>>

\* schema.removeRelationship(id), for the ids handed out and the next one
RemoveAnyRelationship ==
    \E id \in {RelId(n) : n \in 1..(RemoveRels + 1)} :
        /\ relationships' = Schema_removeRelationship(schema, id).relationships
        /\ call' = Call("removeRelationship", id)
        /\ ret' = Void
        /\ UNCHANGED <<search, tool, wizard, tables, nextTableId, nextRelId>>

RemoveNext ==
    \/ RemoveAnyColumn
    \/ RemoveAnyRelationship
    \/ ValidateSchema

SpecRemove == RemoveInit /\ [][RemoveNext]_vars

(***************************************************************************)
(* RelationshipWizard, built for the tables posts (source) and users       *)
(* (target) over a schema that holds both of them or only the source.      *)
(* wizard.onComplete lists the relationships the callback given to show()  *)
(* was called with, wizard.onCancel counts the calls of the other callback *)
(***************************************************************************)
MaxShows == 2

MaxCreated == 3

totalSteps == 4

WizardSource == TwoColumnTables[1]

WizardTarget == TwoColumnTables[2]

\* the values of the options of a column select: the placeholder and the column ids
OptionValues(table) == {""} \cup {table.columns[i].id : i \in 1..Len(table.columns)}

\* table.getColumn(columnId) || null
selectColumn(table, columnId) == IF HasColumn(table, columnId) THEN columnId ELSE "null"

\* show(onComplete, onCancel)
show(w) ==
    [w EXCEPT !.overlay = TRUE, !.currentStep = 1, !.shows = @ + 1,
              !.onComplete = <<>>, !.onCancel = 0]

\* close(): the overlay goes and onCancel is called
close(w) == [w EXCEPT !.overlay = FALSE, !.onCancel = @ + 1]

validateCurrentStep(w) ==
    ~(w.currentStep = 2
      /\ (w.selectedSourceColumn = "null" \/ w.selectedTargetColumn = "null"))

nextStep(w) ==
    IF ~validateCurrentStep(w) THEN w
    ELSE IF w.currentStep < totalSteps THEN [w EXCEPT !.currentStep = @ + 1]
    ELSE w

previousStep(w) ==
    IF w.currentStep > 1 THEN [w EXCEPT !.currentStep = @ - 1] ELSE w

\* Relationship.create(selectedType, sourceTable.id, targetTable.id, ...) under id
wizardRelationship(w, id) ==
    Relationship(id, w.selectedType, WizardSource.id, WizardTarget.id,
                 w.selectedSourceColumn, w.selectedTargetColumn)

\* faulty variant: the relationship is handed over whatever validate returns
finish_ignoresErrors(w, s, id) ==
    IF w.selectedSourceColumn = "null" \/ w.selectedTargetColumn = "null"
    THEN w
    ELSE close([w EXCEPT !.onComplete = Append(@, wizardRelationship(w, id))])

finish(w, s, id) ==
    IF w.selectedSourceColumn = "null" \/ w.selectedTargetColumn = "null"
    THEN w
    ELSE IF Relationship_validate(wizardRelationship(w, id), s).errors # <<>>
    THEN w
    ELSE close([w EXCEPT !.onComplete = Append(@, wizardRelationship(w, id))])

\* the calls of Relationship.create, hence of generateId, that a click on the next
\* button makes: one in finish, one in validateRelationship when step 4 is rendered
createdByNext(w) ==
    IF w.selectedSourceColumn = "null" \/ w.selectedTargetColumn = "null" THEN 0
    ELSE IF w.currentStep = totalSteps THEN 1
    ELSE IF nextStep(w).currentStep = totalSteps THEN 1
    ELSE 0

WizardInit ==
    \E k \in 1..Len(TwoColumnTables) :
        /\ tables = SubSeq(TwoColumnTables, 1, k)
        /\ relationships = <<>>
        /\ nextTableId = Len(TwoColumnTables) + 1
        /\ nextRelId = 1
        /\ call = Call("new", "")
        /\ ret = Void
        /\ Others

Show ==
    /\ ~wizard.overlay
    /\ wizard.shows < MaxShows
    /\ wizard' = show(wizard)
    /\ call' = Call("show", "")
    /\ UNCHANGED <<tables, relationships, nextTableId, nextRelId, ret, search, tool>>

ClickCancel ==
    /\ wizard.overlay
    /\ wizard' = close(wizard)
    /\ call' = Call("click", "wizard-cancel")
    /\ UNCHANGED <<tables, relationships, nextTableId, nextRelId, ret, search, tool>>

ClickOverlay ==
    /\ wizard.overlay
    /\ wizard' = close(wizard)
    /\ call' = Call("click", "wizard-overlay")
    /\ UNCHANGED <<tables, relationships, nextTableId, nextRelId, ret, search, tool>>

\* the button is disabled on the first step
ClickPrevious ==
    /\ wizard.overlay
    /\ wizard.currentStep # 1
    /\ wizard' = previousStep(wizard)
    /\ call' = Call("click", "wizard-prev")
    /\ UNCHANGED <<tables, relationships, nextTableId, nextRelId, ret, search, tool>>

ClickNext ==
    /\ wizard.overlay
    /\ nextRelId + createdByNext(wizard) <= MaxCreated + 1
    /\ wizard' = IF wizard.currentStep = totalSteps
                 THEN finish(wizard, schema, RelId(nextRelId))
                 ELSE nextStep(wizard)
    /\ nextRelId' = nextRelId + createdByNext(wizard)
    /\ call' = Call("click", "wizard-next")
    /\ UNCHANGED <<tables, relationships, nextTableId, ret, search, tool>>

ChangeSourceColumn ==
    \E columnId \in OptionValues(WizardSource) :
        /\ wizard.overlay
        /\ wizard.currentStep = 2
        /\ wizard' = [wizard EXCEPT
                         !.selectedSourceColumn = selectColumn(WizardSource, columnId)]
        /\ call' = Call("change", "wizard-source-column")
        /\ UNCHANGED <<tables, relationships, nextTableId, nextRelId, ret, search, tool>>

ChangeTargetColumn ==
    \E columnId \in OptionValues(WizardTarget) :
        /\ wizard.overlay
        /\ wizard.currentStep = 2
        /\ wizard' = [wizard EXCEPT
                         !.selectedTargetColumn = selectColumn(WizardTarget, columnId)]
        /\ call' = Call("change", "wizard-target-column")
        /\ UNCHANGED <<tables, relationships, nextTableId, nextRelId, ret, search, tool>>

ChangeType ==
    \E type \in RelationTypes :
        /\ wizard.overlay
        /\ wizard.currentStep = 3
        /\ wizard' = [wizard EXCEPT !.selectedType = type]
        /\ call' = Call("change", "relationship-type")
        /\ UNCHANGED <<tables, relationships, nextTableId, nextRelId, ret, search, tool>>

WizardNext ==
    \/ Show
    \/ ClickCancel
    \/ ClickOverlay
    \/ ClickPrevious
    \/ ClickNext
    \/ ChangeSourceColumn
    \/ ChangeTargetColumn
    \/ ChangeType

SpecWizard == WizardInit /\ [][WizardNext]_vars

(***************************************************************************)
(* RelationshipTool over a schema of up to three tables, each holding some *)
(* id columns or none. The table found at the mouse position is any table  *)
(* of the schema, or none ("null")                                         *)
(***************************************************************************)
MaxLinks == 2

MaxToolColumns == 1

\* this.entityLayer.findTableAt(x, y), over all positions
TablesAt == MapKeys(tables) \cup {"null"}

\* table.columns[0]?.id || ''
firstColumnId(table) == IF Len(table.columns) > 0 THEN table.columns[1].id ELSE ""

\* RelationshipTool.onMouseDown with the table found at the position
onMouseDown(t, found) ==
    IF found # "null" THEN [isLinking |-> TRUE, sourceTable |-> found] ELSE t

\* what onMouseUp adds to the schema: <<>> or the one relationship
linked(t, s, found, id) ==
    IF ~t.isLinking \/ t.sourceTable = "null" THEN <<>>
    ELSE IF found # "null" /\ found # t.sourceTable
    THEN <<Relationship(id, "one-to-many", t.sourceTable, found,
                        firstColumnId(getTable(s, t.sourceTable)),
                        firstColumnId(getTable(s, found)))>>
    ELSE <<>>

ToolInit ==
    \E k \in 0..Len(GraphTableIds) :
        \E held \in [1..k -> 0..MaxToolColumns] :
            /\ tables = [i \in 1..k |->
                            TableOf(GraphTableIds[i], GraphTableNames[i],
                                    [j \in 1..held[i] |-> idColumn])]
            /\ relationships = <<>>
            /\ nextTableId = k + 1
            /\ nextRelId = 1
            /\ call = Call("new", "")
            /\ ret = Void
            /\ Others

MouseDown ==
    \E found \in TablesAt :
        /\ tool' = onMouseDown(tool, found)
        /\ call' = Call("onMouseDown", found)
        /\ UNCHANGED <<tables, relationships, nextTableId, nextRelId, ret, search, wizard>>

\* only the preview line follows the mouse
MouseMove ==
    \E found \in TablesAt :
        /\ call' = Call("onMouseMove", found)
        /\ UNCHANGED <<tables, relationships, nextTableId, nextRelId, ret, search, wizard,
                       tool>>

MouseUp ==
    \E found \in TablesAt :
        LET added == linked(tool, schema, found, RelId(nextRelId))
        IN  /\ nextRelId + Len(added) <= MaxLinks + 1
            /\ relationships' = IF added = <<>> THEN relationships
                                ELSE Schema_addRelationship(schema, added[1]).relationships
            /\ nextRelId' = nextRelId + Len(added)
            /\ tool' = IF ~tool.isLinking \/ tool.sourceTable = "null" THEN tool
                       ELSE ToolIdle
            /\ call' = Call("onMouseUp", found)
            /\ UNCHANGED <<tables, nextTableId, ret, search, wizard>>

ToolNext ==
    \/ MouseDown
    \/ MouseMove
    \/ MouseUp

SpecTool == ToolInit /\ [][ToolNext]_vars

(***************************************************************************)
(* Properties                                                              *)
(***************************************************************************)
Codes(findings) == [i \in 1..Len(findings) |-> findings[i].code]

HasCode(findings, code) == \E i \in 1..Len(findings) : findings[i].code = code

CountCode(findings, code) == Cardinality({i \in 1..Len(findings) : findings[i].code = code})

ValidationCalls == {"validateSchema", "validateTable", "validateRelationship"}

ValidIffNoErrors(result) == result.valid = (result.errors = <<>>)

\* C1: every result returned by validateSchema, validateTable, validateRelationship
\* and Relationship.validate has valid = (errors is empty), whatever its warnings
C1_ValidIffNoErrors ==
    /\ call.op \in ValidationCalls => ValidIffNoErrors(ret)
    /\ \A i \in 1..Len(relationships) :
          ValidIffNoErrors(Relationship_validate(relationships[i], schema))
    /\ \A id \in AllTableIds : ValidIffNoErrors(validateTable(schema, id))
    /\ ValidIffNoErrors(validateSchema(schema))

\* a schema with warnings and no errors was validated and found valid
C1_Witness ==
    /\ call.op = "validateSchema"
    /\ ret.errors = <<>>
    /\ ret.warnings # <<>>
    /\ ret.valid
    /\ Len(relationships) > 0

DanglingRelationships(s) ==
    {i \in 1..Len(s.relationships) :
        \/ ~HasTable(s, s.relationships[i].sourceTableId)
        \/ ~HasTable(s, s.relationships[i].targetTableId)
        \/ /\ HasTable(s, s.relationships[i].sourceTableId)
           /\ ~HasColumn(getTable(s, s.relationships[i].sourceTableId),
                         s.relationships[i].sourceColumnId)}

rel == relationships[1]

SourceTableResolves == HasTable(schema, rel.sourceTableId)
TargetTableResolves == HasTable(schema, rel.targetTableId)

SourceColumnResolves ==
    /\ SourceTableResolves
    /\ \E i \in 1..Len(getTable(schema, rel.sourceTableId).columns) :
          getTable(schema, rel.sourceTableId).columns[i].id = rel.sourceColumnId

TargetColumnResolves ==
    /\ TargetTableResolves
    /\ \E i \in 1..Len(getTable(schema, rel.targetTableId).columns) :
          getTable(schema, rel.targetTableId).columns[i].id = rel.targetColumnId

Fields(findings) == [i \in 1..Len(findings) |-> findings[i].field]

NormalForm(type) ==
    LET parens == {i \in 1..Len(type) : CharAt(type, i) = "("}
        text == IF parens = {} THEN type
                ELSE SubSeq(type, 1, (CHOOSE i \in parens : \A j \in parens : i <= j) - 1)
        inked == {i \in 1..Len(text) : CharAt(text, i) \notin {" ", "\t", "\n"}}
        first == CHOOSE i \in inked : \A j \in inked : i <= j
        last == CHOOSE i \in inked : \A j \in inked : j <= i
    IN  IF inked = {} THEN "" ELSE toUpperCase(SubSeq(text, first, last))

TypeGroups ==
    {{"INT", "INTEGER", "BIGINT", "SMALLINT", "TINYINT",
      "DECIMAL", "NUMERIC", "FLOAT", "DOUBLE", "NUMBER"},
     {"VARCHAR", "CHAR", "TEXT", "STRING", "CLOB"},
     {"DATE", "DATETIME", "TIMESTAMP", "TIME"}}

Compatible(a, b) ==
    \/ NormalForm(a) = NormalForm(b)
    \/ \E g \in TypeGroups : NormalForm(a) \in g /\ NormalForm(b) \in g

sourceColumnOfRel == getColumn(getTable(schema, rel.sourceTableId), rel.sourceColumnId)
targetColumnOfRel == getColumn(getTable(schema, rel.targetTableId), rel.targetColumnId)

C7_Symmetric ==
    call.op = "areTypesCompatible" =>
        ret = areTypesCompatible(call.arg[2], call.arg[1])

\* two types with different normal forms were found compatible
C7_Witness ==
    /\ call.op = "areTypesCompatible"
    /\ ret = TRUE
    /\ normalize(call.arg[1]) # normalize(call.arg[2])

Range(seq) == {seq[i] : i \in 1..Len(seq)}

\* C8: validateSchema reports the findings of all four passes, also when the
\* table pass has found errors: every table error, every error and warning of
\* every relationship, every CIRCULAR_DEPENDENCY and every ORPHAN_TABLE warning
C8_NoShortCircuit ==
    call.op = "validateSchema" =>
        /\ Range(validateTables(schema).errors) \subseteq Range(ret.errors)
        /\ \A i \in 1..Len(relationships) :
              /\ Range(Relationship_validate(relationships[i], schema).errors)
                    \subseteq Range(ret.errors)
              /\ Range(Relationship_validate(relationships[i], schema).warnings)
                    \subseteq Range(ret.warnings)
        /\ CountCode(ret.warnings, "CIRCULAR_DEPENDENCY")
              = Len(checkCircularDependencies(schema).warnings)
        /\ Range(checkCircularDependencies(schema).warnings) \subseteq Range(ret.warnings)
        /\ Range(checkOrphanTables(schema).warnings) \subseteq Range(ret.warnings)
        /\ Len(ret.errors) = Len(validateTables(schema).errors)
                             + Len(validateRelationships(schema).errors)

\* a result that holds findings of all four passes
C8_Witness ==
    /\ call.op = "validateSchema"
    /\ HasCode(ret.errors, "TABLE_NO_COLUMNS")
    /\ HasCode(ret.errors, "SOURCE_COLUMN_NOT_FOUND")
    /\ HasCode(ret.warnings, "CIRCULAR_DEPENDENCY")
    /\ HasCode(ret.warnings, "ORPHAN_TABLE")

EqualIgnoringCase(a, b) == toUpperCase(a) = toUpperCase(b)

DuplicateErrorsOn(result, ids) ==
    Cardinality({i \in 1..Len(result.errors) :
                    /\ result.errors[i].code = "DUPLICATE_TABLE_NAME"
                    /\ result.errors[i].field \in ids})

Edges == {<<relationships[i].sourceTableId, relationships[i].targetTableId>> :
             i \in 1..Len(relationships)}

Nodes == {e[1] : e \in Edges} \cup {e[2] : e \in Edges}

Successors(ns) == {e[2] : e \in {d \in Edges : d[1] \in ns}}

\* the nodes reached from ns along at least one edge
RECURSIVE ReachedFrom(_, _)
ReachedFrom(ns, found) ==
    LET more == found \cup Successors(ns \cup found)
    IN  IF more = found THEN found ELSE ReachedFrom(ns, more)

OnCycle == {n \in Nodes : n \in ReachedFrom({n}, {})}

\* the nodes the search can come to: the tables and what is reached from them
Searched == MapKeys(tables) \cup ReachedFrom(MapKeys(tables), {})

\* C10 as stated: whenever the edges contain a directed cycle, validateSchema
\* emits a CIRCULAR_DEPENDENCY warning, and the pass adds no error
C10_AnyCycleWarned ==
    call.op = "validateSchema" =>
        /\ OnCycle # {} => HasCode(ret.warnings, "CIRCULAR_DEPENDENCY")
        /\ checkCircularDependencies(schema).errors = <<>>
        /\ ~HasCode(ret.errors, "CIRCULAR_DEPENDENCY")

\* C10 amended: whenever a directed cycle is reached from a table of the schema,
\* validateSchema emits a CIRCULAR_DEPENDENCY warning; the pass adds no error, so
\* the errors are those of the table and relationship passes
C10_ReachedCycleWarned ==
    call.op = "validateSchema" =>
        /\ OnCycle \cap Searched # {} => HasCode(ret.warnings, "CIRCULAR_DEPENDENCY")
        /\ checkCircularDependencies(schema).errors = <<>>
        /\ ~HasCode(ret.errors, "CIRCULAR_DEPENDENCY")
        /\ Len(ret.errors) = Len(validateTables(schema).errors)
                             + Len(validateRelationships(schema).errors)

\* a cycle through three tables was warned about and the schema is valid
C10_Witness ==
    /\ call.op = "validateSchema"
    /\ Len(tables) = 3
    /\ Edges = {<<"t1", "t2">>, <<"t2", "t3">>, <<"t3", "t1">>}
    /\ HasCode(ret.warnings, "CIRCULAR_DEPENDENCY")
    /\ ret.valid

\* C11: when the relationships' edges hold no directed cycle, validateSchema emits
\* no CIRCULAR_DEPENDENCY warning: not for a chain, and not for a table that is
\* reached along two different paths
C11_NoCycleNoWarning ==
    call.op = "validateSchema" =>
        (OnCycle = {} => ~HasCode(ret.warnings, "CIRCULAR_DEPENDENCY"))

\* t3 is reached from t1 directly and through t2, and nothing is reported
C11_Witness ==
    /\ call.op = "validateSchema"
    /\ Len(tables) = 3
    /\ Edges = {<<"t1", "t2">>, <<"t1", "t3">>, <<"t2", "t3">>}
    /\ ~HasCode(ret.warnings, "CIRCULAR_DEPENDENCY")

OrphanWarningsOn(result, id) ==
    Cardinality({i \in 1..Len(result.warnings) :
                    /\ result.warnings[i].code = "ORPHAN_TABLE"
                    /\ result.warnings[i].field = id})

\* C12: with at least two tables, validateSchema emits exactly one ORPHAN_TABLE
\* warning for each table that is no end of any relationship and none for any
\* other table; with fewer than two tables it emits none
C12_OrphanTables ==
    call.op = "validateSchema" =>
        IF Len(tables) >= 2
        THEN /\ \A i \in 1..Len(tables) :
                   OrphanWarningsOn(ret, tables[i].id)
                       = IF tables[i].id \in Nodes THEN 0 ELSE 1
             /\ CountCode(ret.warnings, "ORPHAN_TABLE")
                   = Cardinality({i \in 1..Len(tables) : tables[i].id \notin Nodes})
        ELSE ~HasCode(ret.warnings, "ORPHAN_TABLE")

\* three tables of which two are related: the third is the one orphan
C12_Witness ==
    /\ call.op = "validateSchema"
    /\ Len(tables) = 3
    /\ Edges = {<<"t2", "t1">>}
    /\ CountCode(ret.warnings, "ORPHAN_TABLE") = 1
    /\ OrphanWarningsOn(ret, "t3") = 1

NoDanglingTables(s) ==
    \A i \in 1..Len(s.relationships) :
        /\ HasTable(s, s.relationships[i].sourceTableId)
        /\ HasTable(s, s.relationships[i].targetTableId)

Touches(r, id) == r.sourceTableId = id \/ r.targetTableId = id

\* C13: removeTable(id) leaves the schema without the table and without any
\* relationship that starts or ends at it, and leaves every other table and every
\* other relationship as it was; so from a schema without dangling table ids,
\* addTable, removeTable, removeRelationship and an addRelationship between
\* existing tables lead to a schema without dangling table ids
C13_RemoveTableCascades ==
    [][/\ call'.op = "removeTable" =>
            /\ ~MapHas(tables', call'.arg)
            /\ \A i \in 1..Len(relationships') : ~Touches(relationships'[i], call'.arg)
            /\ MapKeys(tables') = MapKeys(tables) \ {call'.arg}
            /\ \A id \in MapKeys(tables') : MapGet(tables', id) = MapGet(tables, id)
            /\ Range(relationships')
                  = {r \in Range(relationships) : ~Touches(r, call'.arg)}
            /\ Len(relationships') = Cardinality(Range(relationships'))
       /\ (/\ NoDanglingTables(schema)
           /\ \/ call'.op \in {"addTable", "removeTable", "removeRelationship"}
              \/ /\ call'.op = "addRelationship"
                 /\ MapHas(tables, MapGet(relationships', call'.arg).sourceTableId)
                 /\ MapHas(tables, MapGet(relationships', call'.arg).targetTableId))
          => NoDanglingTables(Schema(tables', relationships'))]_vars

\* a table was removed after a relationship had been created, and neither the
\* table nor any relationship is left while the other table still is
C13_Witness ==
    /\ call.op = "removeTable"
    /\ nextRelId > 1
    /\ relationships = <<>>
    /\ ~MapHas(tables, call.arg)
    /\ Len(tables) = 1

\* C14: validateTable(id) for an id that is no table returns valid = false, the
\* one error TABLE_NOT_FOUND and no warning; validateRelationship(id) for an id
\* that is no relationship returns valid = false, the one error
\* RELATIONSHIP_NOT_FOUND and no warning
C14_NotFoundIsReturned ==
    /\ (call.op = "validateTable" /\ ~HasTable(schema, call.arg)) =>
          /\ ret.valid = FALSE
          /\ Codes(ret.errors) = <<"TABLE_NOT_FOUND">>
          /\ ret.errors[1].field = call.arg
          /\ ret.warnings = <<>>
    /\ (call.op = "validateRelationship" /\ ~HasRelationship(schema, call.arg)) =>
          /\ ret.valid = FALSE
          /\ Codes(ret.errors) = <<"RELATIONSHIP_NOT_FOUND">>
          /\ ret.errors[1].field = call.arg
          /\ ret.warnings = <<>>

\* validateTable was called with the id of a table that had been removed
C14_Witness ==
    /\ call.op = "validateTable"
    /\ call.arg \in CreatedTableIds
    /\ ~HasTable(schema, call.arg)
    /\ tables # <<>>
    /\ HasCode(ret.errors, "TABLE_NOT_FOUND")

\* the ids of the table and of its columns, as findings carry them in field
IdsOf(t) == {t.id} \cup {t.columns[i].id : i \in 1..Len(t.columns)}

\* the code validateSchema uses for the rule that validateTable reports under code
TablePassCode(code) ==
    CASE code = "COLUMN_EMPTY_NAME" -> "EMPTY_COLUMN_NAME"
      [] code = "COLUMN_EMPTY_TYPE" -> "EMPTY_COLUMN_TYPE"
      [] OTHER -> code

\* the rules the table pass of validateSchema finds broken by t and its columns
TablePassViolations(t) ==
    {<<e.code, e.field>> : e \in {f \in Range(validateTables(schema).errors) :
                                     /\ f.field \in IdsOf(t)
                                     /\ f.code # "DUPLICATE_TABLE_NAME"}}

\* C15: for a table of the schema, validateTable reports exactly the rule
\* violations that the table pass of validateSchema reports for that table and its
\* columns, under the same codes but for COLUMN_EMPTY_NAME and COLUMN_EMPTY_TYPE
C15_SameAsTablePass ==
    (call.op = "validateTable" /\ HasTable(schema, call.arg)) =>
        {<<TablePassCode(e.code), e.field>> : e \in Range(ret.errors)}
            = TablePassViolations(getTable(schema, call.arg))

FindingsOn(findings, code, id) ==
    Cardinality({i \in 1..Len(findings) :
                    findings[i].code = code /\ findings[i].field = id})

\* the columns of the schema
AllColumns == UNION {Range(tables[i].columns) : i \in 1..Len(tables)}

HasInk(text) == \E i \in 1..Len(text) : CharAt(text, i) \notin {" ", "\t", "\n"}

\* C17: validateSchema reports PRIMARY_KEY_NULLABLE for a column iff it is a
\* nullable primary key, and AUTO_INCREMENT_NON_NUMERIC iff it is autoIncrement
\* and its normalized type is outside the numeric group of the type resolver; a
\* single table whose only column is a non-nullable INT primary key has no errors
C17_ColumnFlags ==
    call.op = "validateSchema" =>
        /\ \A c \in AllColumns :
              /\ FindingsOn(ret.errors, "PRIMARY_KEY_NULLABLE", c.id)
                    = IF c.primaryKey /\ c.nullable THEN 1 ELSE 0
              /\ FindingsOn(ret.errors, "AUTO_INCREMENT_NON_NUMERIC", c.id)
                    = IF c.autoIncrement /\ NormalForm(c.type) \notin numericTypes
                      THEN 1 ELSE 0
        /\ \A code \in {"PRIMARY_KEY_NULLABLE", "AUTO_INCREMENT_NON_NUMERIC"} :
              /\ \A i \in 1..Len(ret.errors) :
                    ret.errors[i].code = code =>
                        ret.errors[i].field \in {c.id : c \in AllColumns}
              /\ ~HasCode(ret.warnings, code)
        /\ (/\ Len(tables) = 1
            /\ HasInk(tables[1].name)
            /\ Len(tables[1].columns) = 1
            /\ HasInk(tables[1].columns[1].name)
            /\ NormalForm(tables[1].columns[1].type) = "INT"
            /\ tables[1].columns[1].primaryKey
            /\ ~tables[1].columns[1].nullable) => ret.errors = <<>>

\* one table holds an autoIncrement INT, an autoIncrement bigint(20) and a nullable
\* autoIncrement VARCHAR(50) primary key: only the last is reported, for both rules
C17_Witness ==
    /\ call.op = "validateSchema"
    /\ Len(tables) = 1
    /\ Len(tables[1].columns) = 3
    /\ {tables[1].columns[i].type : i \in 1..3} = {"INT", " bigint(20) ", "VARCHAR(50)"}
    /\ CountCode(ret.errors, "PRIMARY_KEY_NULLABLE") = 1
    /\ CountCode(ret.errors, "AUTO_INCREMENT_NON_NUMERIC") = 1

C20_DuplicateColumnNames ==
    call.op = "validateSchema" =>
        /\ \A i \in 1..Len(tables) :
              \A j \in 1..Len(tables[i].columns) :
                  LET columns == tables[i].columns
                      sameName == {k \in 1..Len(columns) :
                                      EqualIgnoringCase(columns[k].name, columns[j].name)}
                  IN  /\ FindingsOn(ret.errors, "DUPLICATE_COLUMN_NAME", columns[j].id)
                            = IF \E k \in sameName : k < j THEN 1 ELSE 0
                      /\ Cardinality({e \in 1..Len(ret.errors) :
                              /\ ret.errors[e].code = "DUPLICATE_COLUMN_NAME"
                              /\ ret.errors[e].field \in {columns[k].id : k \in sameName}})
                            = Cardinality(sameName) - 1
        /\ \A e \in 1..Len(ret.errors) :
              ret.errors[e].code = "DUPLICATE_COLUMN_NAME" =>
                  ret.errors[e].field \in {c.id : c \in AllColumns}

\* three columns of t1 are named id, ID and Id, and t2 has a column named id too:
\* two errors, both in t1
C20_Witness ==
    /\ call.op = "validateSchema"
    /\ Len(tables) = 2
    /\ Len(tables[1].columns) = 3
    /\ {tables[1].columns[i].name : i \in 1..3} = {"id", "ID", "Id"}
    /\ Len(tables[2].columns) = 1
    /\ tables[2].columns[1].name = "id"
    /\ CountCode(ret.errors, "DUPLICATE_COLUMN_NAME") = 2
    /\ FindingsOn(ret.errors, "DUPLICATE_COLUMN_NAME", "t1c1") = 0
    /\ FindingsOn(ret.errors, "DUPLICATE_COLUMN_NAME", "t2c1") = 0

\* the concatenation of a sequence of sequences
RECURSIVE Flat(_)
Flat(seqs) ==
    IF Len(seqs) = 0 THEN <<>>
    ELSE Flat(SubSeq(seqs, 1, Len(seqs) - 1)) \o seqs[Len(seqs)]

RelationshipErrors ==
    Flat([i \in 1..Len(relationships) |->
             Relationship_validate(relationships[i], schema).errors])

RelationshipWarnings ==
    Flat([i \in 1..Len(relationships) |->
             Relationship_validate(relationships[i], schema).warnings])

PassWarningCodes == {"CIRCULAR_DEPENDENCY", "ORPHAN_TABLE"}

\* C18: what validateSchema reports for the relationships is the concatenation, in
\* order, of the errors and of the warnings of validate(schema) of every
\* relationship; validateRelationship(id) of a relationship of the schema returns
\* what its validate(schema) returns
C18_RelationshipPassDelegates ==
    /\ call.op = "validateSchema" =>
          /\ Len(ret.errors) = Len(validateTables(schema).errors) + Len(RelationshipErrors)
          /\ SubSeq(ret.errors, Len(validateTables(schema).errors) + 1, Len(ret.errors))
                = RelationshipErrors
          /\ Len(ret.warnings) >= Len(RelationshipWarnings)
          /\ SubSeq(ret.warnings, 1, Len(RelationshipWarnings)) = RelationshipWarnings
          /\ \A i \in (Len(RelationshipWarnings) + 1)..Len(ret.warnings) :
                ret.warnings[i].code \in PassWarningCodes
    /\ (call.op = "validateRelationship" /\ HasRelationship(schema, call.arg)) =>
          ret = Relationship_validate(CHOOSE r \in Range(relationships) : r.id = call.arg,
                                      schema)

\* two relationships with errors each were validated with the schema
C18_Witness ==
    /\ call.op = "validateSchema"
    /\ Len(relationships) = 2
    /\ \A i \in 1..2 : Relationship_validate(relationships[i], schema).errors # <<>>
    /\ HasCode(ret.errors, "SOURCE_TABLE_NOT_FOUND")
    /\ HasCode(ret.errors, "TYPE_MISMATCH")
    /\ RelationshipWarnings # <<>>

IsFinding(f) ==
    /\ DOMAIN f = {"code", "message", "field", "suggestion"}
    /\ f.code \in STRING
    /\ f.message \in STRING

IsFindingList(fs) ==
    /\ DOMAIN fs = 1..Len(fs)
    /\ \A i \in 1..Len(fs) : IsFinding(fs[i])

IsValidationResult(r) ==
    /\ DOMAIN r = {"valid", "errors", "warnings"}
    /\ r.valid \in BOOLEAN
    /\ IsFindingList(r.errors)
    /\ IsFindingList(r.warnings)

\* C16: validateSchema(), validateTable(id), validateRelationship(id) and
\* validate(schema) of every relationship end in a ValidationResult for every
\* schema, also when relationships name tables or columns that do not exist
C16_AlwaysAResult ==
    /\ call.op \in ValidationCalls => IsValidationResult(ret)
    /\ IsValidationResult(validateSchema(schema))
    /\ \A id \in AllTableIds : IsValidationResult(validateTable(schema, id))
    /\ \A id \in AllRelIds : IsValidationResult(validateRelationship(schema, id))
    /\ \A i \in 1..Len(relationships) :
          IsValidationResult(Relationship_validate(relationships[i], schema))

\* validateRelationship was called for a relationship whose table was removed
C16_Witness ==
    /\ call.op = "validateRelationship"
    /\ HasRelationship(schema, call.arg)
    /\ ~NoDanglingTables(schema)
    /\ IsValidationResult(ret)
    /\ ~ret.valid

ExpectedName == toLowerCase(getTable(schema, rel.targetTableId).name) \o "_id"

\* C22: validate warns NAMING_CONVENTION, once, iff the relationship is one-to-many
\* or many-to-many, its tables and columns resolve, and the name of the source
\* column differs, ignoring case, from lowercase(target table name) + "_id"
C22_NamingConvention ==
    call.op = "validate" =>
        /\ CountCode(ret.warnings, "NAMING_CONVENTION")
              = IF /\ rel.type \in {"one-to-many", "many-to-many"}
                   /\ SourceColumnResolves
                   /\ TargetColumnResolves
                   /\ ~EqualIgnoringCase(sourceColumnOfRel.name, ExpectedName)
                THEN 1 ELSE 0
        /\ rel.type = "one-to-one" => ~HasCode(ret.warnings, "NAMING_CONVENTION")
        /\ ~HasCode(ret.errors, "NAMING_CONVENTION")

\* a one-to-many relationship from USERS_ID to table users is not warned about
C22_Witness ==
    /\ call.op = "validate"
    /\ rel.type = "one-to-many"
    /\ SourceColumnResolves /\ TargetColumnResolves
    /\ sourceColumnOfRel.name = "USERS_ID"
    /\ ExpectedName = "users_id"
    /\ ~HasCode(ret.warnings, "NAMING_CONVENTION")

\* the name shown for a table id: the name of the table, or the id when no table has it
NameOf(id) == IF HasTable(schema, id) THEN getTable(schema, id).name ELSE id

\* the walks along relationship edges that leave id and come back to it, each node
\* of the cycle being passed once
ClosedWalks(id) ==
    {p \in UNION {[1..n -> Nodes] : n \in 2..(Cardinality(Nodes) + 1)} :
        /\ p[1] = id
        /\ p[Len(p)] = id
        /\ \A i \in 1..(Len(p) - 1) : <<p[i], p[i + 1]>> \in Edges}

WalkMessage(p) ==
    "Circular dependency detected: " \o join([i \in 1..Len(p) |-> NameOf(p[i])], " → ")

\* C23: the message of each CIRCULAR_DEPENDENCY warning lists the names along a
\* cycle of relationship edges that starts at the table found again on the
\* recursion stack and ends with that same table, an id without a table being
\* shown as the id
C23_MessageClosesCycle ==
    call.op = "validateSchema" =>
        \A i \in 1..Len(ret.warnings) :
            ret.warnings[i].code = "CIRCULAR_DEPENDENCY" =>
                \E p \in ClosedWalks(ret.warnings[i].field) :
                    ret.warnings[i].message = WalkMessage(p)

\* C24: in one validateSchema call the relationship loop of hasCycle is entered at
\* most once for each table id, so that each relationship is followed at most
\* once, and there are at most as many CIRCULAR_DEPENDENCY warnings as
\* relationships, one at most for each relationship
C24_NoReexploration ==
    call.op = "validateSchema" =>
        LET st == searchTables(schema)
        IN  /\ \A i, j \in 1..Len(st.scanned) : st.scanned[i] = st.scanned[j] => i = j
            /\ Range(st.scanned) = st.visited
            /\ st.recursionStack = {}
            /\ CountCode(ret.warnings, "CIRCULAR_DEPENDENCY") = Len(st.warnings)
            /\ CountCode(ret.warnings, "CIRCULAR_DEPENDENCY") <= Len(relationships)
            /\ \A id \in Nodes :
                  FindingsOn(ret.warnings, "CIRCULAR_DEPENDENCY", id)
                      <= Cardinality({i \in 1..Len(relationships) :
                                         relationships[i].targetTableId = id})

\* three relationships on two tables give three warnings: as many as relationships
C24_Witness ==
    /\ call.op = "validateSchema"
    /\ Len(tables) = 2
    /\ Len(relationships) = 3
    /\ CountCode(ret.warnings, "CIRCULAR_DEPENDENCY") = 3
    /\ Len(searchTables(schema).scanned) = 2

\* C25: the search of checkCircularDependencies comes to its return statement on
\* every finite schema, cycles, self-references, several relationships between the
\* same pair of tables and relationships to missing tables included, and returns
\* the warnings of the recursive definition
C25_SearchTerminates ==
    <>(/\ search.pc = "done"
       /\ search.warnings = checkCircularDependencies(schema).warnings)

C25_Witness ==
    /\ search.pc = "done"
    /\ search.warnings # <<>>
    /\ \E i \in 1..Len(relationships) : ~HasTable(schema, relationships[i].targetTableId)

\* the schemas that hold the same tables and the same relationships as s, the
\* tables added in another order
TableOrders(s) ==
    {Schema([i \in 1..Len(s.tables) |-> s.tables[p[i]]], s.relationships) :
        p \in {q \in [1..Len(s.tables) -> 1..Len(s.tables)] :
                  \A i, j \in 1..Len(s.tables) : q[i] = q[j] => i = j}}

SameCounts(findings, others) ==
    \A code \in Range(Codes(findings)) \cup Range(Codes(others)) :
        CountCode(findings, code) = CountCode(others, code)

\* C26: validateSchema gives the same validity and, per code, the same number of
\* errors and of warnings for two schemas that differ only in the order in which
\* their tables were added
C26_TableOrderIrrelevant ==
    call.op = "validateSchema" =>
        \A other \in TableOrders(schema) :
            LET result == validateSchema(other)
            IN  /\ result.valid = ret.valid
                /\ SameCounts(result.errors, ret.errors)
                /\ SameCounts(result.warnings, ret.warnings)

\* the kept elements of a list, in their order
Without(seq, removed) ==
    LET RECURSIVE keep(_)
        keep(i) == IF i > Len(seq) THEN <<>>
                   ELSE (IF seq[i] \in removed THEN <<>> ELSE <<seq[i]>>) \o keep(i + 1)
    IN  keep(1)

\* removeColumn(call'.arg) took the column of that id and nothing else; no two
\* tables hold a column of the same id
OnlyColumnRemoved ==
    call'.op = "removeColumn" =>
        /\ relationships' = relationships
        /\ Len(tables') = Len(tables)
        /\ \A i \in 1..Len(tables) :
              /\ tables'[i].id = tables[i].id
              /\ tables'[i].name = tables[i].name
              /\ tables'[i].columns =
                    Without(tables[i].columns,
                            {c \in Range(tables[i].columns) : c.id = call'.arg})

\* removeRelationship(id) took that relationship and nothing else
OnlyRelationshipRemoved ==
    call'.op = "removeRelationship" =>
        /\ tables' = tables
        /\ relationships' =
              Without(relationships, {r \in Range(relationships) : r.id = call'.arg})

ColumnGone(r) ==
    \/ /\ HasTable(schema, r.sourceTableId)
       /\ ~HasColumn(getTable(schema, r.sourceTableId), r.sourceColumnId)
    \/ /\ HasTable(schema, r.targetTableId)
       /\ ~HasColumn(getTable(schema, r.targetTableId), r.targetColumnId)

ColumnErrorsOf(r) ==
    {e \in Range(Relationship_validate(r, schema).errors) :
        e.code \in {"SOURCE_COLUMN_NOT_FOUND", "TARGET_COLUMN_NOT_FOUND"}}

BothSelected(w) == w.selectedSourceColumn # "null" /\ w.selectedTargetColumn # "null"

FinishClicked ==
    /\ call'.op = "click"
    /\ call'.arg = "wizard-next"
    /\ wizard.currentStep = totalSteps

\* C28: the step of the wizard stays within 1..4; onComplete is called only by
\* finish, with the relationship over the two selected columns, and only when
\* validate returns no error for it; when validate returns an error, finish calls
\* no callback and leaves the dialog open
C28_FinishGated ==
    [][/\ wizard.currentStep \in 1..4
       /\ wizard'.currentStep \in 1..4
       /\ (wizard'.shows = wizard.shows /\ wizard'.onComplete # wizard.onComplete) =>
             /\ FinishClicked
             /\ BothSelected(wizard)
             /\ \E r \in Range(wizard'.onComplete) :
                   /\ wizard'.onComplete = Append(wizard.onComplete, r)
                   /\ r.sourceColumnId = wizard.selectedSourceColumn
                   /\ r.targetColumnId = wizard.selectedTargetColumn
                   /\ r.sourceTableId = WizardSource.id
                   /\ r.targetTableId = WizardTarget.id
                   /\ r.type = wizard.selectedType
                   /\ Relationship_validate(r, schema).errors = <<>>
       /\ (/\ FinishClicked
           /\ Relationship_validate(wizardRelationship(wizard, RelId(nextRelId)),
                                    schema).errors # <<>>) =>
             wizard' = wizard]_vars

C28_Witness ==
    /\ wizard.onComplete # <<>>
    /\ ~wizard.overlay
    /\ nextRelId > 3

\* C30: of the two callbacks given to one show(), at most one is ever called:
\* onComplete after a finish that succeeded, onCancel when the dialog was closed
\* without one
C30_OneCallback == ~(wizard.onComplete # <<>> /\ wizard.onCancel > 0)

HoldsColumn(tableId, columnId) ==
    /\ HasTable(schema, tableId)
    /\ Len(getTable(schema, tableId).columns) > 0
    /\ getTable(schema, tableId).columns[1].id = columnId

\* C29: a mouse-up adds a relationship only when the drag began on a table and
\* ends over another table and both tables hold a column; the relationship joins
\* the first column of the one to the first column of the other; and after every
\* mouse-up the tool is neither linking nor holding a source table
C29_LinksFirstColumns ==
    [][/\ call'.op = "onMouseUp" => tool' = [isLinking |-> FALSE, sourceTable |-> "null"]
       /\ relationships' # relationships =>
             /\ call'.op = "onMouseUp"
             /\ tool.isLinking
             /\ HasTable(schema, tool.sourceTable)
             /\ HasTable(schema, call'.arg)
             /\ call'.arg # tool.sourceTable
             /\ \E r \in Range(relationships') :
                   /\ relationships' = Append(relationships, r)
                   /\ r.sourceTableId = tool.sourceTable
                   /\ r.targetTableId = call'.arg
                   /\ HoldsColumn(r.sourceTableId, r.sourceColumnId)
                   /\ HoldsColumn(r.targetTableId, r.targetColumnId)]_vars

====
